---- MODULE Spec2Model ----
(***************************************************************************)
(* Model of the download orchestrator of server.js: the job table          *)
(* (activeDownloads), the id counter, the per-job pipeline started by      *)
(* POST /api/download, the file delivery, cleanup, clear and the periodic  *)
(* sweeper, together with the part of the disk they act on.                *)
(*                                                                         *)
(* The server is one single-threaded event loop: the code between two      *)
(* awaits on real I/O runs atomically.  Each action below is one such      *)
(* segment of a handler; "pc" is the await a pipeline is suspended at.     *)
(***************************************************************************)
EXTENDS Integers, Sequences, FiniteSets, TLC

\* ------------------------------------------------------------------ bounds
\* Number of submit requests (and so of pipelines) of one run.
MaxJobs == 2
\* Number of clock advances of one run.
MaxTicks == 1
\* Number of requests other than submits (status, cleanup, clear, file
\* delivery, and the sweeper's pass) that may be in flight at the same time.
MaxOps == 1
\* MAX_CONCURRENT_DOWNLOADS of the environment the model runs in.
maxConcurrent == 1

\* --------------------------------------------------------------- constants
\* maxAge of the periodic cleanup, in milliseconds.
maxAge == 7200000
\* minZipSize of the pipeline's archive check, in bytes.
minZipSize == 512
\* DOWNLOAD_TIMEOUT of the fallback download (its default), in milliseconds.
downloadTimeout == 7200000

\* One clock advance: long enough to make every existing job stale.  Two
\* readings of Date.now() with no advance between them fall in the same
\* millisecond.
TickMs == maxAge + 1
Clock == {k * TickMs : k \in 0..MaxTicks}

Slots == 1..MaxJobs
OpSlots == 1..MaxOps

\* The sizes an archive can come out with: empty, under the floor, at the floor.
ZipSizes == {0, minZipSize - 1, minZipSize}

\* downloadId = `download_${Date.now()}_${++downloadCounter}` is the pair of
\* the clock value and the counter value.
NoId == <<0, 0>>

VARIABLES
  now,                  \* Date.now()
  cleanupAfterDownload, \* process.env.CLEANUP_AFTER_DOWNLOAD === 'true'
  activeDownloads,      \* the Map, as the sequence of its entries in insertion order
  downloadCounter,
  history,              \* DownloadHistory rows: id -> persisted status
  fsDir,                \* workspaces on disk: id -> what the directory holds
  fsZip,                \* archive files on disk: id -> size in bytes
  pc,                   \* per submit request: where its handler / pipeline is
  jid,                  \* per submit request: the downloadId of its closure
  child,                \* per pipeline: the external process or archive write running for it
  sresp,                \* per submit request: the response it was given
  ops,                  \* the other requests in flight (and the sweeper pass)
  dl,                   \* the download of one job in detail: the AdvancedSteamDownloader
                        \* instance, its steam client processes, the record's progress
  wsl                   \* wsLogger: its log history, its clients and what they received

vars == <<now, cleanupAfterDownload, activeDownloads, downloadCounter, history,
          fsDir, fsZip, pc, jid, child, sresp, ops, dl, wsl>>

\* The clock is observed only where the code reads it, so it advances there;
\* and only differences of readings matter, so the first id is given at 0.
Later(t) == {u \in Clock : u >= t /\ (u > t => \E p \in Slots : jid[p] # NoId)}

\* ------------------------------------------------------------ Map helpers
Keys(m) == {m[i].id : i \in 1..Len(m)}
Has(m, id) == id \in Keys(m)
IndexOf(m, id) == CHOOSE i \in 1..Len(m) : m[i].id = id
Get(m, id) == m[IndexOf(m, id)]
\* Map.set: an existing key keeps its position, a new key is appended.
MapSet(m, rec) ==
  IF Has(m, rec.id) THEN [m EXCEPT ![IndexOf(m, rec.id)] = rec] ELSE Append(m, rec)
\* Map.delete
MapDelete(m, id) == SelectSeq(m, LAMBDA r : r.id # id)

Without(f, x) == [y \in (DOMAIN f) \ {x} |-> f[y]]
With(f, x, v) == [y \in (DOMAIN f) \cup {x} |-> IF y = x THEN v ELSE f[y]]

\* ---------------------------------------------------------------- history
\* DownloadHistory.create: fails on an existing primary key (the caller logs it).
addDownloadToHistory(h, id) == IF id \in DOMAIN h THEN h ELSE With(h, id, "starting")
\* DownloadHistory.update(updates, {where: {id}}): no row, no change; an update
\* without a status field leaves the status.
updateDownloadInHistory(h, id, status) ==
  IF id \in DOMAIN h /\ status # "" THEN With(h, id, status) ELSE h

\* ------------------------------------------------------------------- disk
\* fs.remove(downloadPath): the directory and the archive inside it.
RemoveDir(d, id) == Without(d, id)
Exists(d, id) == id \in DOMAIN d

\* cleanupFiles(paths, force): removes only when forced or when the option is set.
ShouldCleanup(force, option) == force \/ option
cleanupFilesDir(d, id, force, option) ==
  IF ShouldCleanup(force, option) /\ Exists(d, id) THEN RemoveDir(d, id) ELSE d

\* A request in flight: which handler, the entry it is working on, the entries
\* its loop has passed, the clock value it captured when it began, the byte
\* range it serves.  A handler that has answered leaves nothing behind.
NoRange == <<-1, -1>>
Idle == [kind |-> "idle", cur |-> NoId, visited |-> {}, at |-> 0, range |-> NoRange]
Op(kind, cur, visited, at) == [Idle EXCEPT !.kind = kind, !.cur = cur,
                                           !.visited = visited, !.at = at]
\* The response of POST /api/download: status code and body numbers.
NoAnswer == <<0, 0, 0>>

\* No job is being followed in detail; the logger is not followed.
NoDownload == [phase |-> "off"]
NoLogger == [phase |-> "off"]

Init ==
  /\ now = 0
  /\ cleanupAfterDownload \in BOOLEAN
  /\ activeDownloads = <<>>
  /\ downloadCounter = 0
  /\ history = <<>>
  /\ fsDir = <<>>
  /\ fsZip = <<>>
  /\ pc = [p \in Slots |-> "idle"]
  /\ jid = [p \in Slots |-> NoId]
  /\ child = [p \in Slots |-> "none"]
  /\ sresp = [p \in Slots |-> NoAnswer]
  /\ ops = [o \in OpSlots |-> Idle]
  /\ dl = NoDownload
  /\ wsl = NoLogger

\* ------------------------------------------------------------ job records
\* downloadData of POST /api/download.  zipPath says whether the record has
\* the field: the path string is computed from the id before the record is
\* built.
NewRecord(id, t, info) ==
  [id |-> id, status |-> "starting", progress |-> 0, startTime |-> t,
   fileSize |-> 0, error |-> "", workshopInfo |-> info,
   zipPath |-> TRUE]

\* { ...download, ...additionalData }
Merge(rec, add) == [k \in DOMAIN rec |-> IF k \in DOMAIN add THEN add[k] ELSE rec[k]]

Min(a, b) == IF a < b THEN a ELSE b

\* updateProgress: no record, no change.
updateProgress(m, id, progress) ==
  IF Has(m, id) THEN MapSet(m, Merge(Get(m, id), [progress |-> Min(progress, 100)])) ELSE m

\* updateStatus: no record, no change.
updateStatus(m, id, status, additionalData) ==
  IF Has(m, id)
  THEN MapSet(m, Merge(Merge(Get(m, id), [status |-> status]), additionalData))
  ELSE m
\* ... and its updateDownloadInHistory call, made only when the record exists.
updateStatusHistory(m, h, id, status) ==
  IF Has(m, id) THEN updateDownloadInHistory(h, id, status) ELSE h

\* ----------------------------------------------------------------- submit
\* An admission test that lets a request in at a full table.
AdmissionOverFull(size, cap) == size > cap
\* The admission test of POST /api/download.
AdmissionFull(size, cap) == size >= cap

\* An occupancy that counts only the jobs still at work.
occupancyRunning(m) ==
  Cardinality({i \in 1..Len(m) : m[i].status \notin {"completed", "error"}})

\* activeDownloads.size, the occupancy the admission test compares with the
\* cap: every record of the table, whatever its state.
occupancy(m) == Len(m)

\* POST /api/download up to its first await: URL check and admission test.
\* Requests are numbered in arrival order.
SubmitCheck(p, urlOk) ==
  /\ pc[p] = "idle"
  /\ p > 1 => pc[p - 1] # "idle"
  /\ IF ~urlOk
     THEN /\ pc' = [pc EXCEPT ![p] = "refused"]
          /\ sresp' = [sresp EXCEPT ![p] = <<400, 0, 0>>]
     ELSE IF AdmissionFull(occupancy(activeDownloads), maxConcurrent)
     THEN /\ pc' = [pc EXCEPT ![p] = "refused"]
          /\ sresp' = [sresp EXCEPT ![p] = <<429, occupancy(activeDownloads), maxConcurrent>>]
     ELSE /\ pc' = [pc EXCEPT ![p] = "fetching"]
          /\ sresp' = sresp
  /\ UNCHANGED <<dl, wsl>>
  /\ UNCHANGED <<now, cleanupAfterDownload, activeDownloads, downloadCounter, history,
                 fsDir, fsZip, jid, child, ops>>

\* What fetchWorkshopInfo returns: a DayZ item, an item that is not accessible,
\* an item of another application.
WorkshopInfos == {"ok", "invalid", "notDayZ"}
\* workshopInfo.isValid
isValid(info) == info # "invalid"
\* A test of workshopInfo.isDayZ that lets every item pass.
isDayZAlways(info) == TRUE
\* workshopInfo.isDayZ
isDayZ(info) == info = "ok"

\* POST /api/download after fetchWorkshopInfo has returned: validity checks,
\* id assignment, insertion of the record, addDownloadToHistory.
SubmitAdmit(p, info, t) ==
  /\ pc[p] = "fetching"
  /\ now' = t
  /\ IF ~isValid(info) \/ ~isDayZ(info)
     THEN /\ t = now
          /\ pc' = [pc EXCEPT ![p] = "refused"]
          /\ sresp' = [sresp EXCEPT ![p] = <<400, 0, 0>>]
          /\ UNCHANGED <<activeDownloads, downloadCounter, history, jid>>
     ELSE LET id == <<t, downloadCounter + 1>> IN
          /\ downloadCounter' = downloadCounter + 1
          /\ jid' = [jid EXCEPT ![p] = id]
          /\ activeDownloads' = MapSet(activeDownloads, NewRecord(id, t, info))
          /\ history' = addDownloadToHistory(history, id)
          /\ pc' = [pc EXCEPT ![p] = "admitted"]
          /\ sresp' = sresp
  /\ UNCHANGED <<dl, wsl>>
  /\ UNCHANGED <<cleanupAfterDownload, fsDir, fsZip, child, ops>>

\* res.json({downloadId, ...}) and the start of the pipeline, which runs up to
\* the await inside updateStatus('preparing').
SubmitRespond(p) ==
  /\ pc[p] = "admitted"
  /\ sresp' = [sresp EXCEPT ![p] = <<200, 0, 0>>]
  /\ activeDownloads' = updateStatus(activeDownloads, jid[p], "preparing", [progress |-> 5])
  /\ history' = updateStatusHistory(activeDownloads, history, jid[p], "preparing")
  /\ pc' = [pc EXCEPT ![p] = "preparing"]
  /\ UNCHANGED <<dl, wsl>>
  /\ UNCHANGED <<now, cleanupAfterDownload, downloadCounter, fsDir, fsZip, jid, child, ops>>

\* --------------------------------------------------------------- pipeline
\* The catch block of the pipeline, entered with the table m, the disk d, z and
\* the history h the failing segment leaves.  It removes the workspace (an
\* await on the disk) only when the record is still in the table.
CatchBlock(p, m, d, z, h) ==
  IF Has(m, jid[p]) /\ Exists(d, jid[p])
  THEN /\ fsDir' = cleanupFilesDir(d, jid[p], TRUE, cleanupAfterDownload)
       /\ fsZip' = Without(z, jid[p])
       /\ activeDownloads' = m
       /\ history' = h
       /\ pc' = [pc EXCEPT ![p] = "catching"]
  ELSE /\ fsDir' = d
       /\ fsZip' = z
       /\ activeDownloads' = updateStatus(m, jid[p], "error", [error |-> "failed"])
       /\ history' = updateDownloadInHistory(h, jid[p], "error")
       /\ pc' = [pc EXCEPT ![p] = "done"]

\* The catch block after its cleanupFiles await.
CatchFinish(p) ==
  /\ pc[p] = "catching"
  /\ activeDownloads' = updateStatus(activeDownloads, jid[p], "error", [error |-> "failed"])
  /\ history' = updateDownloadInHistory(history, jid[p], "error")
  /\ pc' = [pc EXCEPT ![p] = "done"]
  /\ UNCHANGED <<dl, wsl>>
  /\ UNCHANGED <<now, cleanupAfterDownload, downloadCounter, fsDir, fsZip, jid, child, sresp, ops>>

\* ensureDirectoryExists(downloadPath), then updateStatus('downloading').
Prepare(p) ==
  /\ pc[p] = "preparing"
  /\ fsDir' = IF Exists(fsDir, jid[p]) THEN fsDir ELSE With(fsDir, jid[p], "empty")
  /\ activeDownloads' = updateStatus(activeDownloads, jid[p], "downloading", [progress |-> 10])
  /\ history' = updateStatusHistory(activeDownloads, history, jid[p], "downloading")
  /\ pc' = [pc EXCEPT ![p] = "downloading"]
  /\ UNCHANGED <<dl, wsl>>
  /\ UNCHANGED <<now, cleanupAfterDownload, downloadCounter, fsZip, jid, child, sresp, ops>>

\* downloadWorkshopItem up to the spawn of the steam client: checkSteamCMD,
\* progressCallback(30), retryDownload.
SpawnAdvanced(p, installed) ==
  /\ pc[p] = "downloading"
  /\ IF installed
     THEN /\ activeDownloads' = updateProgress(activeDownloads, jid[p], 30)
          /\ child' = [child EXCEPT ![p] = "steamcmd"]
          /\ pc' = [pc EXCEPT ![p] = "advanced"]
          /\ UNCHANGED <<history, fsDir, fsZip>>
     ELSE /\ CatchBlock(p, activeDownloads, fsDir, fsZip, history)
          /\ child' = child
  /\ UNCHANGED <<dl, wsl>>
  /\ UNCHANGED <<now, cleanupAfterDownload, downloadCounter, jid, sresp, ops>>

\* What a download leaves in the workspace: nothing, files outside the
\* canonical layout, the canonical content directory with entries.
DirKinds == {"empty", "other", "content"}

\* The expected content directory exists and holds at least one entry
\* (the adapter's check after the steam client has closed).
ContentWritten(d, id) == Exists(d, id) /\ d[id] = "content"

\* The pipeline's verification of the downloaded content: existsSync on the
\* expected path, else any entry under steamapps, workshop or the workspace.
ContentVerified(d, id) == Exists(d, id) /\ d[id] \in {"content", "other"}

\* createZipArchive's choice of a source: the canonical directory when it
\* exists (and then it must hold entries), else the first non-empty alternative.
ArchiveSourceFound(d, id) == Exists(d, id) /\ d[id] \in {"content", "other"}

\* The steam client writes into its install directory, creating it when missing.
ChildWrite(p, kind) ==
  /\ child[p] = "steamcmd"
  /\ ~(Exists(fsDir, jid[p]) /\ fsDir[jid[p]] = "content")
  /\ fsDir' = With(fsDir, jid[p], kind)
  /\ UNCHANGED <<dl, wsl>>
  /\ UNCHANGED <<now, cleanupAfterDownload, activeDownloads, downloadCounter, history,
                 fsZip, pc, jid, child, sresp, ops>>

\* The tail of the pipeline's download step once downloadWorkshopItem has
\* resolved: content verification, then updateStatus('creating_archive').
AfterDownload(p, m) ==
  IF ContentVerified(fsDir, jid[p])
  THEN /\ activeDownloads' = updateStatus(m, jid[p], "creating_archive", [progress |-> 65])
       /\ history' = updateStatusHistory(m, history, jid[p], "creating_archive")
       /\ pc' = [pc EXCEPT ![p] = "archive_start"]
       /\ UNCHANGED <<fsDir, fsZip>>
  ELSE CatchBlock(p, m, fsDir, fsZip, history)

\* The steam client of retryDownload closes (or is killed by its timeout).
\* Success needs the expected content; a failed attempt is retried after
\* removing the partial download, and the last failure starts the fallback
\* download (progressCallback(35), second spawn).  The attempts are not counted.
AdvancedExit(p, giveUp) ==
  /\ pc[p] = "advanced"
  /\ child[p] = "steamcmd"
  /\ IF ContentWritten(fsDir, jid[p])
     THEN /\ AfterDownload(p, updateProgress(activeDownloads, jid[p], 60))
          /\ child' = [child EXCEPT ![p] = "none"]
     ELSE IF giveUp
     THEN /\ activeDownloads' = updateProgress(activeDownloads, jid[p], 35)
          /\ pc' = [pc EXCEPT ![p] = "fallback"]
          /\ UNCHANGED <<child, history, fsDir, fsZip>>
     ELSE /\ fsDir' = IF Exists(fsDir, jid[p]) THEN With(fsDir, jid[p], "empty") ELSE fsDir
          /\ UNCHANGED <<child, pc, activeDownloads, history, fsZip>>
  /\ UNCHANGED <<dl, wsl>>
  /\ UNCHANGED <<now, cleanupAfterDownload, downloadCounter, jid, sresp, ops>>

\* The steam client of the fallback download closes: progressCallback(60),
\* then resolve (exit code 0, no error marker) or reject.
FallbackExit(p, ok) ==
  /\ pc[p] = "fallback"
  /\ child[p] = "steamcmd"
  /\ child' = [child EXCEPT ![p] = "none"]
  /\ IF ok
     THEN AfterDownload(p, updateProgress(activeDownloads, jid[p], 60))
     ELSE CatchBlock(p, updateProgress(activeDownloads, jid[p], 60), fsDir, fsZip, history)
  /\ UNCHANGED <<dl, wsl>>
  /\ UNCHANGED <<now, cleanupAfterDownload, downloadCounter, jid, sresp, ops>>

\* The DOWNLOAD_TIMEOUT timer of the fallback download fires: the promise is
\* rejected, the steam client is left running.
FallbackTimeout(p, t) ==
  /\ pc[p] = "fallback"
  /\ t - jid[p][1] > downloadTimeout
  /\ now' = t
  /\ CatchBlock(p, activeDownloads, fsDir, fsZip, history)
  /\ UNCHANGED <<dl, wsl>>
  /\ UNCHANGED <<cleanupAfterDownload, downloadCounter, jid, child, sresp, ops>>

\* The close handler of a fallback steam client whose promise was already
\* rejected by the timer: progressCallback(60), nothing else.
LateChildExit(p) ==
  /\ pc[p] \in {"catching", "done"}
  /\ child[p] = "steamcmd"
  /\ child' = [child EXCEPT ![p] = "none"]
  /\ activeDownloads' = updateProgress(activeDownloads, jid[p], 60)
  /\ UNCHANGED <<dl, wsl>>
  /\ UNCHANGED <<now, cleanupAfterDownload, downloadCounter, history, fsDir, fsZip,
                 pc, jid, sresp, ops>>

\* createZipArchive up to archive.finalize(): the output file is opened in the
\* workspace and the source directory is chosen.
StartArchive(p) ==
  /\ pc[p] = "archive_start"
  /\ IF ArchiveSourceFound(fsDir, jid[p])
     THEN /\ fsZip' = With(fsZip, jid[p], 0)
          /\ child' = [child EXCEPT ![p] = "archiver"]
          /\ pc' = [pc EXCEPT ![p] = "archiving"]
          /\ UNCHANGED <<activeDownloads, history, fsDir>>
     ELSE /\ CatchBlock(p, activeDownloads, fsDir,
                        IF Exists(fsDir, jid[p]) THEN With(fsZip, jid[p], 0) ELSE fsZip,
                        history)
          /\ child' = child
  /\ UNCHANGED <<dl, wsl>>
  /\ UNCHANGED <<now, cleanupAfterDownload, downloadCounter, jid, sresp, ops>>

\* The archive is under the pipeline's floor.
ZipTooSmall(size) == size < minZipSize

\* The output stream closes with `size` bytes written: progressCallback(100)
\* and resolve when size > 0, then the pipeline's checks of the file and
\* updateStatus('completed'); reject when the archive is empty.
ArchiveClose(p, size) ==
  /\ pc[p] = "archiving"
  /\ child[p] = "archiver"
  /\ child' = [child EXCEPT ![p] = "none"]
  /\ LET z == IF Exists(fsZip, jid[p]) THEN With(fsZip, jid[p], size) ELSE fsZip
         m == updateProgress(activeDownloads, jid[p], 100)
     IN IF size = 0
        THEN CatchBlock(p, activeDownloads, fsDir, z, history)
        ELSE IF ~Exists(z, jid[p]) \/ ZipTooSmall(z[jid[p]])
        THEN CatchBlock(p, m, fsDir, z, history)
        ELSE /\ activeDownloads' =
                  updateStatus(m, jid[p], "completed", [progress |-> 100, fileSize |-> size])
             /\ history' = updateStatusHistory(m, history, jid[p], "completed")
             /\ fsZip' = z
             /\ fsDir' = fsDir
             /\ pc' = [pc EXCEPT ![p] = "done"]
  /\ UNCHANGED <<dl, wsl>>
  /\ UNCHANGED <<now, cleanupAfterDownload, downloadCounter, jid, sresp, ops>>

\* The archiver or the output stream reports an error: reject.
ArchiveError(p) ==
  /\ pc[p] = "archiving"
  /\ child[p] = "archiver"
  /\ child' = [child EXCEPT ![p] = "none"]
  /\ CatchBlock(p, activeDownloads, fsDir, fsZip, history)
  /\ UNCHANGED <<dl, wsl>>
  /\ UNCHANGED <<now, cleanupAfterDownload, downloadCounter, jid, sresp, ops>>

\* ------------------------------------------------- handlers other than submit
\* The ids a client can present: those handed out so far, and an unknown one.
KnownIds == {jid[p] : p \in Slots} \cup {NoId}

\* Request slots are taken lowest first.
FreeSlot(o) == ops[o] = Idle /\ \A o2 \in OpSlots : o2 < o => ops[o2] # Idle

\* GET /api/status/:downloadId: the record as it is, or 404.
StatusResponse(m, id) ==
  IF Has(m, id)
  THEN [code |-> 200, status |-> Get(m, id).status, progress |-> Get(m, id).progress,
        error |-> Get(m, id).error]
  ELSE [code |-> 404, status |-> "", progress |-> 0, error |-> "Download not found"]

\* The handler reads the table and answers in one go; nothing is left behind.
Status(id) ==
  /\ StatusResponse(activeDownloads, id).code \in {200, 404}
  /\ UNCHANGED vars

\* A cleanup answer that never says not-found.
CleanupCodeAlways(found) == 200

\* The answer of DELETE /api/cleanup/:downloadId: found or not.
CleanupCode(found) == IF found THEN 200 ELSE 404

\* DELETE /api/cleanup/:downloadId up to the await on the removal of the
\* workspace; with no workspace on disk there is no such await and the
\* handler runs through; with no record it answers 404 and changes nothing.
CleanupCall(o, id) ==
  /\ FreeSlot(o)
  /\ IF CleanupCode(Has(activeDownloads, id)) = 404
     THEN UNCHANGED <<activeDownloads, history, fsDir, fsZip, ops>>
     ELSE IF Exists(fsDir, id)
     THEN /\ fsDir' = cleanupFilesDir(fsDir, id, TRUE, cleanupAfterDownload)
          /\ fsZip' = Without(fsZip, id)
          /\ ops' = [ops EXCEPT ![o] = Op("cleanup", id, {}, 0)]
          /\ UNCHANGED <<activeDownloads, history>>
     ELSE /\ activeDownloads' = MapDelete(activeDownloads, id)
          /\ history' = updateDownloadInHistory(history, id, "cleaned")
          /\ UNCHANGED <<fsDir, fsZip, ops>>
  /\ UNCHANGED <<dl, wsl>>
  /\ UNCHANGED <<now, cleanupAfterDownload, downloadCounter, pc, jid, child, sresp>>

\* DELETE /api/cleanup/:downloadId after cleanupFiles: drop the record, write
\* status 'cleaned' to the history, answer 200.
CleanupFinish(o) ==
  /\ ops[o].kind = "cleanup"
  /\ activeDownloads' = MapDelete(activeDownloads, ops[o].cur)
  /\ history' = updateDownloadInHistory(history, ops[o].cur, "cleaned")
  /\ ops' = [ops EXCEPT ![o] = Idle]
  /\ UNCHANGED <<dl, wsl>>
  /\ UNCHANGED <<now, cleanupAfterDownload, downloadCounter, fsDir, fsZip, pc, jid,
                 child, sresp>>

\* The entries a for..of over the Map has still to visit, in insertion order.
Unvisited(m, visited) == SelectSeq(m, LAMBDA r : r.id \notin visited)

\* POST /api/clear: one turn of its loop (cleanupFiles and the history update
\* of the next entry), or its end (clear the Map, reset the counter, answer).
ClearTurn(o, visited) ==
  LET rest == Unvisited(activeDownloads, visited) IN
  IF Len(rest) > 0
  THEN /\ fsDir' = cleanupFilesDir(fsDir, rest[1].id, TRUE, cleanupAfterDownload)
       /\ fsZip' = Without(fsZip, rest[1].id)
       /\ history' = updateDownloadInHistory(history, rest[1].id, "cleaned")
       /\ ops' = [ops EXCEPT ![o] = Op("clear", rest[1].id, visited \cup {rest[1].id}, 0)]
       /\ UNCHANGED <<activeDownloads, downloadCounter>>
  ELSE /\ activeDownloads' = <<>>
       /\ downloadCounter' = 0
       /\ ops' = [ops EXCEPT ![o] = Idle]
       /\ UNCHANGED <<fsDir, fsZip, history>>

ClearCall(o) ==
  /\ FreeSlot(o)
  /\ ClearTurn(o, {})
  /\ UNCHANGED <<dl, wsl>>
  /\ UNCHANGED <<now, cleanupAfterDownload, pc, jid, child, sresp>>

ClearNext(o) ==
  /\ ops[o].kind = "clear"
  /\ ClearTurn(o, ops[o].visited)
  /\ UNCHANGED <<dl, wsl>>
  /\ UNCHANGED <<now, cleanupAfterDownload, pc, jid, child, sresp>>

\* The periodic cleanup's age test, with the clock value taken at its start.
Stale(rec, at) == at - rec.startTime > maxAge

\* What the periodic cleanup does to the Map once the awaits of a stale entry
\* are over.
SweepReap(m, id) == MapDelete(m, id)

\* The periodic cleanup: the loop runs through the entries that are not stale
\* and stops at the await of the first stale one (cleanupFiles, then the
\* history update, which carries no status); m is the Map the turn starts with.
SweepTurn(o, m, visited, at) ==
  LET rest == Unvisited(m, visited)
      stale == {i \in 1..Len(rest) : Stale(rest[i], at)}
  IN IF stale # {}
     THEN LET i == CHOOSE k \in stale : \A l \in stale : k <= l IN
          /\ fsDir' = cleanupFilesDir(fsDir, rest[i].id, TRUE, cleanupAfterDownload)
          /\ fsZip' = Without(fsZip, rest[i].id)
          /\ activeDownloads' = m
          /\ ops' = [ops EXCEPT ![o] =
                       Op("sweep", rest[i].id, visited \cup {rest[k].id : k \in 1..i}, at)]
     ELSE /\ activeDownloads' = m
          /\ ops' = [ops EXCEPT ![o] = Idle]
          /\ UNCHANGED <<fsDir, fsZip>>

SweepStart(o, t) ==
  /\ FreeSlot(o)
  /\ now' = t
  /\ SweepTurn(o, activeDownloads, {}, t)
  /\ UNCHANGED <<dl, wsl>>
  /\ UNCHANGED <<cleanupAfterDownload, downloadCounter, history, pc, jid, child, sresp>>

\* ... after the awaits of a stale entry: activeDownloads.delete, next turn.
SweepNext(o) ==
  /\ ops[o].kind = "sweep"
  /\ SweepTurn(o, SweepReap(activeDownloads, ops[o].cur), ops[o].visited, ops[o].at)
  /\ UNCHANGED <<dl, wsl>>
  /\ UNCHANGED <<now, cleanupAfterDownload, downloadCounter, history, pc, jid, child, sresp>>

\* The byte ranges a client asks for, as <<start, end>> after the handler's
\* parsing (a missing end is size - 1): the whole file, a start beyond the
\* file without and with an end.  NoRange: no Range header.
Ranges(size) == {<<0, size - 1>>, <<size + 1, size - 1>>, <<size + 1, size + 2>>}

\* fs.createReadStream(zipPath, {start, end}) throws when start > end.
RangeAccepted(range) == range[1] <= range[2]

\* A finish handler registered whatever the request.
RegistersAlways(range) == TRUE
\* The finish handler (disposal after delivery) is registered for a request
\* without a Range header only.
RegistersFinish(range) == range = NoRange

\* The status code of GET /api/download/:downloadId/file.
FetchCode(m, z, id, range) ==
  IF ~Has(m, id) THEN 404
  ELSE IF Get(m, id).status # "completed" THEN 400
  ELSE IF ~Exists(z, id) THEN 404
  ELSE IF range = NoRange THEN 200
  ELSE IF RangeAccepted(range) THEN 206
  ELSE 500

\* GET /api/download/:downloadId/file up to the start of the stream; a
\* request that is refused changes nothing.
Fetch(o, id, range) ==
  /\ FreeSlot(o)
  /\ IF FetchCode(activeDownloads, fsZip, id, range) \in {200, 206}
     THEN ops' = [ops EXCEPT ![o] = [Op("fetch_stream", id, {}, 0) EXCEPT !.range = range]]
     ELSE UNCHANGED ops
  /\ UNCHANGED <<dl, wsl>>
  /\ UNCHANGED <<now, cleanupAfterDownload, activeDownloads, downloadCounter, history,
                 fsDir, fsZip, pc, jid, child, sresp>>

\* The response has been written out.  With a finish handler registered:
\* its history update (which carries no status), then
\* cleanupFiles([dirname(zipPath)]) without force, and with nothing to remove
\* the record is dropped at once.  Without one nothing else happens.
FetchFinish(o) ==
  /\ ops[o].kind = "fetch_stream"
  /\ IF ~RegistersFinish(ops[o].range)
     THEN /\ ops' = [ops EXCEPT ![o] = Idle]
          /\ UNCHANGED <<activeDownloads, fsDir, fsZip>>
     ELSE IF ShouldCleanup(FALSE, cleanupAfterDownload) /\ Exists(fsDir, ops[o].cur)
     THEN /\ fsDir' = cleanupFilesDir(fsDir, ops[o].cur, FALSE, cleanupAfterDownload)
          /\ fsZip' = Without(fsZip, ops[o].cur)
          /\ ops' = [ops EXCEPT ![o].kind = "fetch_drop"]
          /\ UNCHANGED activeDownloads
     ELSE /\ activeDownloads' = MapDelete(activeDownloads, ops[o].cur)
          /\ ops' = [ops EXCEPT ![o] = Idle]
          /\ UNCHANGED <<fsDir, fsZip>>
  /\ UNCHANGED <<dl, wsl>>
  /\ UNCHANGED <<now, cleanupAfterDownload, downloadCounter, history, pc, jid, child, sresp>>

\* res.on('finish') after cleanupFiles: activeDownloads.delete.
FetchDrop(o) ==
  /\ ops[o].kind = "fetch_drop"
  /\ activeDownloads' = MapDelete(activeDownloads, ops[o].cur)
  /\ ops' = [ops EXCEPT ![o] = Idle]
  /\ UNCHANGED <<dl, wsl>>
  /\ UNCHANGED <<now, cleanupAfterDownload, downloadCounter, history, fsDir, fsZip,
                 pc, jid, child, sresp>>

\* The client goes away before the response has finished: no finish event.
FetchAbort(o) ==
  /\ ops[o].kind = "fetch_stream"
  /\ ops' = [ops EXCEPT ![o] = Idle]
  /\ UNCHANGED <<dl, wsl>>
  /\ UNCHANGED <<now, cleanupAfterDownload, activeDownloads, downloadCounter, history,
                 fsDir, fsZip, pc, jid, child, sresp>>

Handler(o) ==
  \/ \E id \in KnownIds : CleanupCall(o, id)
  \/ CleanupFinish(o)
  \/ ClearCall(o)
  \/ ClearNext(o)
  \/ \E t \in Later(now) : SweepStart(o, t)
  \/ SweepNext(o)
  \/ \E id \in KnownIds : \E range \in {NoRange} \cup Ranges(minZipSize) : Fetch(o, id, range)
  \/ FetchFinish(o)
  \/ FetchDrop(o)
  \/ FetchAbort(o)

Pipeline(p) ==
  \/ \E urlOk \in BOOLEAN : SubmitCheck(p, urlOk)
  \/ \E info \in WorkshopInfos : \E t \in Later(now) : SubmitAdmit(p, info, t)
  \/ SubmitRespond(p)
  \/ Prepare(p)
  \/ \E installed \in BOOLEAN : SpawnAdvanced(p, installed)
  \/ \E kind \in DirKinds \ {"empty"} : ChildWrite(p, kind)
  \/ \E giveUp \in BOOLEAN : AdvancedExit(p, giveUp)
  \/ \E ok \in BOOLEAN : FallbackExit(p, ok)
  \/ \E t \in Later(now) : FallbackTimeout(p, t)
  \/ LateChildExit(p)
  \/ StartArchive(p)
  \/ \E size \in ZipSizes : ArchiveClose(p, size)
  \/ ArchiveError(p)
  \/ CatchFinish(p)

Next ==
  \/ \E id \in KnownIds : Status(id)
  \/ \E p \in Slots : Pipeline(p)
  \/ \E o \in OpSlots : Handler(o)

Spec == Init /\ [][Next]_vars

\* =============================================== one download in detail
\* The download step of one undisturbed job at the grain of its steam client
\* processes: downloadWorkshopItem of server.js with its AdvancedSteamDownloader
\* (one instance per job), the fallback download, then the archive builder's
\* progress events.  Jobs follow one another; the clock, the credential store
\* on disk and the user name belong to the process.

\* Number of jobs followed one after the other.
MaxDlJobs == 2
\* Number of times half an hour or more passes between two events.
MaxElapse == 1
\* Number of entries the archive builder finds.
MaxEntries == 2

\* this.retryCount, this.retryDelay, this.sessionCheckInterval, this.timeout
retryCount == 5
retryDelay == 10000
sessionCheckInterval == 1800000
timeout == 7200000

\* How a steam client invocation ends: expected content on disk; nothing
\* downloaded; an error / no-subscription / access-denied marker; an
\* item-not-found marker; a second-factor (or login failure) prompt; killed by
\* the downloader's timer.
Outcomes == {"content", "nocontent", "denied", "notfound", "guard", "timeout"}

\* new AdvancedSteamDownloader(...) and the state of a job entering its
\* download step (updateStatus('downloading', {progress: 10}) is done).
NewDownload(job, user, saved, t, elapsed, validAt) ==
  [phase |-> "start", job |-> job, steamUsername |-> user, savedCredentials |-> saved,
   now |-> t, elapsed |-> elapsed, validAt |-> validAt,
   sessionValid |-> FALSE, lastSessionCheck |-> 0,
   attempt |-> 0, running |-> "none", password |-> FALSE,
   lastOutcome |-> "", secondFactor |-> FALSE, wakeAt |-> 0,
   progress |-> 10, progressCounter |-> 35, error |-> "",
   processed |-> 0, total |-> 0]

InitDownloader ==
  /\ now = 0
  /\ cleanupAfterDownload = FALSE
  /\ activeDownloads = <<>>
  /\ downloadCounter = 0
  /\ history = <<>>
  /\ fsDir = <<>>
  /\ fsZip = <<>>
  /\ pc = [p \in Slots |-> "idle"]
  /\ jid = [p \in Slots |-> NoId]
  /\ child = [p \in Slots |-> "none"]
  /\ sresp = [p \in Slots |-> NoAnswer]
  /\ ops = [o \in OpSlots |-> Idle]
  /\ wsl = NoLogger
  /\ \E user \in {"anonymous", "user"} : \E saved \in BOOLEAN :
       dl = NewDownload(1, user, saved, 0, 0, -1)

mainVars == <<now, cleanupAfterDownload, activeDownloads, downloadCounter, history,
              fsDir, fsZip, pc, jid, child, sresp, ops>>

\* The clock readings an event can see: no time has passed, or half an hour.
DlLater(d) ==
  {d.now} \cup (IF d.elapsed < MaxElapse THEN {d.now + sessionCheckInterval} ELSE {})
Elapse(d, t) == [d EXCEPT !.now = t, !.elapsed = IF t > d.now THEN @ + 1 ELSE @]

\* spawn(steamcmd, ...): the password is an argument of the full login and of
\* the fallback download only (an empty one for the anonymous user).
SpawnSteam(d, kind) ==
  [d EXCEPT !.running = kind,
            !.password = (kind = "full" \/ (kind = "fallback" /\ d.steamUsername # "anonymous")),
            !.phase = IF kind = "fallback" THEN "fallback" ELSE "steam"]

\* this.sessionValid = true; this.lastSessionCheck = Date.now()
MarkValid(d) == [d EXCEPT !.sessionValid = TRUE, !.lastSessionCheck = d.now, !.validAt = d.now]
\* this.sessionValid = false
MarkInvalid(d) == [d EXCEPT !.sessionValid = FALSE, !.validAt = -1]

\* isAuthenticated's test of the cached session.
SessionCached(d) == d.sessionValid /\ d.now - d.lastSessionCheck < sessionCheckInterval

\* downloader.downloadWorkshopItem up to its first spawn: isAuthenticated
\* (cached session, anonymous, saved credentials to verify, none), then the
\* cached-session download or the full login.
BeginAttempt(d) ==
  IF SessionCached(d) THEN SpawnSteam(d, "cached")
  ELSE IF d.steamUsername = "anonymous" THEN SpawnSteam(MarkValid(d), "cached")
  ELSE IF d.savedCredentials THEN SpawnSteam(d, "verify")
  ELSE SpawnSteam(MarkInvalid(d), "full")

\* downloadWorkshopItem of server.js: progressCallback(30), retryDownload's
\* first attempt.
StartDownload ==
  /\ dl.phase = "start"
  /\ dl' = BeginAttempt([dl EXCEPT !.progress = Min(30, 100), !.attempt = 1])
  /\ UNCHANGED <<mainVars, wsl>>

\* The fallback download: progressCallback(35) and the second kind of spawn.
StartFallback(d) ==
  SpawnSteam([d EXCEPT !.progress = Min(35, 100), !.progressCounter = 35], "fallback")

\* retryDownload's catch: wait retryDelay * attempt before the next attempt;
\* after the last one throw, which downloadWorkshopItem of server.js catches
\* by starting the fallback download.
AttemptFailed(d) ==
  IF d.attempt < retryCount
  THEN [d EXCEPT !.phase = "waiting", !.running = "none",
                 !.wakeAt = d.now + retryDelay * d.attempt]
  ELSE StartFallback([d EXCEPT !.running = "none"])

\* The download has resolved: progressCallback(60), the pipeline's content
\* verification, updateStatus('creating_archive', {progress: 65}).
DownloadResolved(d, verified) ==
  IF verified
  THEN [d EXCEPT !.running = "none", !.phase = "archive_start", !.progress = Min(65, 100)]
  ELSE [d EXCEPT !.running = "none", !.phase = "error", !.progress = Min(60, 100),
                 !.error = "No workshop content was downloaded"]

\* verifySessionActive's process closes.  A failed verification leaves no
\* valid session and the full login follows.
VerifyClose(active, t) ==
  /\ dl.phase = "steam" /\ dl.running = "verify"
  /\ LET d == Elapse(dl, t) IN
     dl' = IF active THEN SpawnSteam(MarkValid(d), "cached")
           ELSE SpawnSteam(MarkInvalid(d), "full")
  /\ UNCHANGED <<mainVars, wsl>>

\* The process of downloadWithCachedSession, downloadWithFullLogin or
\* downloadAnonymous closes (or its timer kills it), as seen by
\* downloader.downloadWorkshopItem and retryDownload.
DownloadClose(outcome, t) ==
  /\ dl.phase = "steam" /\ dl.running \in {"cached", "full", "anonymous"}
  /\ outcome = "timeout" => t = dl.now /\ dl.elapsed < MaxElapse
  /\ LET d0 == Elapse(dl, IF outcome = "timeout" THEN dl.now + timeout ELSE t)
         d == [d0 EXCEPT !.lastOutcome = outcome]
     IN dl' =
          IF outcome = "timeout" THEN AttemptFailed(d)
          ELSE IF d.running = "cached" /\ outcome = "guard"
          THEN IF d.steamUsername # "anonymous"
               THEN SpawnSteam(MarkInvalid(d), "full")
               ELSE SpawnSteam(MarkInvalid(d), "anonymous")
          ELSE IF d.running = "full" /\ outcome = "guard"
          THEN StartFallback([d EXCEPT !.running = "none", !.secondFactor = TRUE])
          ELSE IF outcome = "content"
          THEN DownloadResolved(IF d.running = "full" THEN MarkValid(d) ELSE d, TRUE)
          ELSE AttemptFailed(d)
  /\ UNCHANGED <<mainVars, wsl>>

\* The retry delay is over: the next attempt.
RetryTimer ==
  /\ dl.phase = "waiting"
  /\ dl' = BeginAttempt([dl EXCEPT !.now = dl.wakeAt, !.attempt = @ + 1])
  /\ UNCHANGED <<mainVars, wsl>>

\* The fallback download's stdout handler sees a "downloading" line.
FallbackData ==
  /\ dl.running = "fallback"
  /\ dl.progressCounter < 55
  /\ dl' = [dl EXCEPT !.progressCounter = Min(@ + 2, 55),
                      !.progress = Min(Min(dl.progressCounter + 2, 55), 100)]
  /\ UNCHANGED <<mainVars, wsl>>

\* The fallback download's process closes: progressCallback(60), reject on a
\* non-zero exit code or an error marker, else resolve.
FallbackClose(outcome, codeZero, anyContent) ==
  /\ dl.phase = "fallback" /\ dl.running = "fallback"
  /\ outcome # "timeout"
  /\ LET d == [dl EXCEPT !.lastOutcome = outcome, !.progress = Min(60, 100)] IN
     dl' = IF ~codeZero \/ outcome \in {"denied", "notfound"}
           THEN [d EXCEPT !.running = "none", !.phase = "error", !.error = "SteamCMD failed"]
           ELSE DownloadResolved(d, outcome = "content" \/ anyContent)
  /\ UNCHANGED <<mainVars, wsl>>

\* The fallback download's timer fires: reject, the process keeps running.
FallbackTimer ==
  /\ dl.phase = "fallback" /\ dl.running = "fallback"
  /\ dl.elapsed < MaxElapse
  /\ dl' = [dl EXCEPT !.now = @ + downloadTimeout, !.elapsed = @ + 1,
                      !.lastOutcome = "timeout",
                      !.phase = "error", !.error = "Download timeout"]
  /\ UNCHANGED <<mainVars, wsl>>

\* ... and closes later: progressCallback(60).
FallbackLateClose ==
  /\ dl.phase = "error" /\ dl.running = "fallback"
  /\ dl' = [dl EXCEPT !.running = "none", !.progress = Min(60, 100)]
  /\ UNCHANGED <<mainVars, wsl>>

\* archive.on('progress'): the percentage reported for the entry counts.
ArchivePercent(processed, total) == Min(70 + ((processed * 25) \div total), 95)

\* createZipArchive starts; no entry is known yet.
DlStartArchive ==
  /\ dl.phase = "archive_start"
  /\ dl' = [dl EXCEPT !.phase = "archiving", !.processed = 0, !.total = 0]
  /\ UNCHANGED <<mainVars, wsl>>

\* A progress event of the archiver: entries found and entries processed have
\* grown since the last one.
ArchiveProgress(processed, total) ==
  /\ dl.phase = "archiving"
  /\ processed >= dl.processed /\ total >= dl.total /\ processed <= total
  /\ <<processed, total>> # <<dl.processed, dl.total>>
  /\ dl' = [dl EXCEPT !.processed = processed, !.total = total,
                      !.progress = Min(ArchivePercent(processed, total), 100)]
  /\ UNCHANGED <<mainVars, wsl>>

\* The output stream closes: progressCallback(100) unless the archive is empty,
\* the pipeline's size check, updateStatus('completed', {progress: 100}).
DlArchiveClose(size) ==
  /\ dl.phase = "archiving"
  /\ dl' = IF size = 0 THEN [dl EXCEPT !.phase = "error", !.error = "Created ZIP file is empty"]
           ELSE IF ZipTooSmall(size)
           THEN [dl EXCEPT !.phase = "error", !.progress = Min(100, 100),
                           !.error = "ZIP file too small"]
           ELSE [dl EXCEPT !.phase = "completed", !.progress = Min(100, 100)]
  /\ UNCHANGED <<mainVars, wsl>>

\* The next job of the process enters its download step, with a downloader
\* of its own.
NextDownload(t) ==
  /\ dl.phase \in {"completed", "error"} /\ dl.running = "none"
  /\ dl.job < MaxDlJobs
  /\ dl' = NewDownload(dl.job + 1, dl.steamUsername, dl.savedCredentials, t,
                       Elapse(dl, t).elapsed, dl.validAt)
  /\ UNCHANGED <<mainVars, wsl>>

\* The status of the job's record in each phase of the download in detail.
DlStatus(d) ==
  CASE d.phase \in {"start", "steam", "waiting", "fallback"} -> "downloading"
    [] d.phase \in {"archive_start", "archiving"} -> "creating_archive"
    [] d.phase = "completed" -> "completed"
    [] OTHER -> "error"

NextDownloader ==
  \/ StartDownload
  \/ \E active \in BOOLEAN : \E t \in DlLater(dl) : VerifyClose(active, t)
  \/ \E outcome \in Outcomes : \E t \in DlLater(dl) : DownloadClose(outcome, t)
  \/ RetryTimer
  \/ FallbackData
  \/ \E outcome \in Outcomes : \E codeZero \in BOOLEAN : \E anyContent \in BOOLEAN :
       FallbackClose(outcome, codeZero, anyContent)
  \/ FallbackTimer
  \/ FallbackLateClose
  \/ DlStartArchive
  \/ \E processed \in 0..MaxEntries : \E total \in 1..MaxEntries :
       ArchiveProgress(processed, total)
  \/ \E size \in ZipSizes : DlArchiveClose(size)
  \/ \E t \in DlLater(dl) : NextDownload(t)

SpecDownloader == InitDownloader /\ [][NextDownloader]_vars

\* ====================================================== the log stream
\* WebSocketLogger of src/models/index.js: the ring of log records, the set of
\* subscribers and what each of them is sent.

\* Number of connection attempts.
MaxClients == 1
\* Number of records published.
MaxPublish == 4
\* Number of clock milliseconds that pass.
MaxMs == 1
\* Math.random() takes one of the values 0/MaxFrac .. (MaxFrac-1)/MaxFrac.
MaxFrac == 2
\* this.maxHistorySize (1000 in the source) and the length of the history
\* burst (50 in the source), scaled down together.
maxHistorySize == 2
recentLogs == 1

Clients == 1..MaxClients
Fracs == 0..(MaxFrac - 1)

\* The tokens a connect attempt can present: none; a token signed with the
\* server's secret; a token with a bad signature; the id of an active admin
\* session; the id of an expired one; a made-up string of the same format;
\* anything else.
Tokens == {"none", "jwt", "badjwt", "session", "expired", "forged", "garbage"}

\* jwt.verify(token, this.JWT_SECRET) returns (does not throw).
jwtVerify(token) == token = "jwt"
\* token.startsWith('admin_session')
startsWithAdminSession(token) == token \in {"session", "expired", "forged"}
\* verifySessionToken returns a user (does not throw).
verifySessionToken(token) == jwtVerify(token) \/ startsWithAdminSession(token)
\* verifyClient of the WebSocket server.
verifyClient(token) == token # "none" /\ verifySessionToken(token)

\* Date.now() + Math.random(): the pair <<millisecond, fraction>>, ordered as
\* the sum is.
LogId(ms, frac) == <<ms, frac>>
IdLess(a, b) == a[1] < b[1] \/ (a[1] = b[1] /\ a[2] < b[2])

\* array.slice(-n)
SliceFirst(sq, n) == IF Len(sq) > n THEN SubSeq(sq, 1, n) ELSE sq
Slice(sq, n) == IF Len(sq) > n THEN SubSeq(sq, Len(sq) - n + 1, Len(sq)) ELSE sq

\* A record: its id and, for a published record, its number in publish
\* order (0 for the welcome record, which is sent to one client only).
LogEntry(id, n) == [id |-> id, n |-> n]

InitLog ==
  /\ now = 0
  /\ cleanupAfterDownload = FALSE
  /\ activeDownloads = <<>>
  /\ downloadCounter = 0
  /\ history = <<>>
  /\ fsDir = <<>>
  /\ fsZip = <<>>
  /\ pc = [p \in Slots |-> "idle"]
  /\ jid = [p \in Slots |-> NoId]
  /\ child = [p \in Slots |-> "none"]
  /\ sresp = [p \in Slots |-> NoAnswer]
  /\ ops = [o \in OpSlots |-> Idle]
  /\ dl = NoDownload
  /\ wsl = [phase |-> "on", ms |-> 0, logHistory |-> <<>>, clients |-> {},
            conn |-> [c \in Clients |-> "new"],
            token |-> [c \in Clients |-> "none"],
            received |-> [c \in Clients |-> <<>>],
            serial |-> 0, sinceClear |-> <<>>, clears |-> 0,
            joined |-> [c \in Clients |-> 0], held |-> [c \in Clients |-> 0]]

\* The clock reaches the next millisecond.
LogTick ==
  /\ wsl.ms < MaxMs
  /\ wsl' = [wsl EXCEPT !.ms = @ + 1]
  /\ UNCHANGED <<mainVars, dl>>

\* A connect attempt: verifyClient, then the 'connection' handler: register,
\* send the history burst if the ring is not empty, send the welcome record.
Connect(c, token, frac) ==
  /\ wsl.conn[c] = "new"
  /\ wsl' = IF ~verifyClient(token)
            THEN [wsl EXCEPT !.conn[c] = "rejected", !.token[c] = token]
            ELSE [wsl EXCEPT !.conn[c] = "open", !.token[c] = token,
                             !.clients = @ \cup {c},
                             !.joined[c] = wsl.serial,
                             !.held[c] = Len(wsl.logHistory),
                             !.received[c] =
                                (IF Len(wsl.logHistory) > 0
                                 THEN Slice(wsl.logHistory, recentLogs) ELSE <<>>)
                                \o <<LogEntry(LogId(wsl.ms, frac), 0)>>]
  /\ UNCHANGED <<mainVars, dl>>

\* client.readyState === WebSocket.OPEN: a socket whose transport has
\* broken still reads OPEN until its close event is processed.
readyStateOpen(conn) == conn \in {"open", "broken"}

\* A send that never throws.
sendThrowsNever(conn) == FALSE

\* client.send(message) throws on a socket that cannot take the message.
sendThrows(conn) == conn = "broken"

\* The subscribers a broadcast delivers to: ready state OPEN and the send
\* returns.
Delivered(w) ==
  {c \in w.clients : readyStateOpen(w.conn[c]) /\ ~sendThrows(w.conn[c])}

\* A broadcast that takes the open subscribers for the dead ones.
BroadcastToClosed(w, entry) ==
  [w EXCEPT !.clients = w.clients \ Delivered(w),
            !.received = [c \in Clients |->
                            IF c \in w.clients \ Delivered(w)
                            THEN Append(w.received[c], entry) ELSE w.received[c]]]

\* broadcast(logEntry): send to the open subscribers; a subscriber that is
\* not open, or whose send throws, is deleted from the set.
Broadcast(w, entry) ==
  [w EXCEPT !.clients = Delivered(w),
            !.received = [c \in Clients |->
                            IF c \in Delivered(w)
                            THEN Append(w.received[c], entry) ELSE w.received[c]]]

\* log(level, source, message, data): new record, push, trim, broadcast.
Log(w, frac) ==
  LET entry == LogEntry(LogId(w.ms, frac), w.serial + 1)
      pushed == Append(w.logHistory, entry)
  IN Broadcast([w EXCEPT !.logHistory = IF Len(pushed) > maxHistorySize
                                          THEN Slice(pushed, maxHistorySize) ELSE pushed,
                         !.serial = @ + 1,
                         !.sinceClear = Append(@, entry)],
               entry)

\* Some part of the server publishes a record.
Publish(frac) ==
  /\ wsl.serial < MaxPublish
  /\ wsl' = Log(wsl, frac)
  /\ UNCHANGED <<mainVars, dl>>

\* clearHistory(): empty the ring, then publish the "cleared" record.
ClearHistory(frac) ==
  /\ wsl.serial < MaxPublish
  /\ wsl' = Log([wsl EXCEPT !.logHistory = <<>>, !.sinceClear = <<>>, !.clears = 1], frac)
  /\ UNCHANGED <<mainVars, dl>>

\* The transport under an open socket breaks: from now on a send throws.
SocketBreaks(c) ==
  /\ wsl.conn[c] = "open"
  /\ wsl' = [wsl EXCEPT !.conn[c] = "broken"]
  /\ UNCHANGED <<mainVars, dl>>

\* A subscriber's socket stops being open; its 'close' event comes later.
SocketCloses(c) ==
  /\ wsl.conn[c] \in {"open", "broken"}
  /\ wsl' = [wsl EXCEPT !.conn[c] = "closing"]
  /\ UNCHANGED <<mainVars, dl>>

\* ws.on('close'): this.clients.delete(ws)
SocketClosed(c) ==
  /\ wsl.conn[c] = "closing"
  /\ wsl' = [wsl EXCEPT !.conn[c] = "gone", !.clients = @ \ {c}]
  /\ UNCHANGED <<mainVars, dl>>

NextLog ==
  \/ LogTick
  \/ \E c \in Clients : \E token \in Tokens : \E frac \in Fracs : Connect(c, token, frac)
  \/ \E frac \in Fracs : Publish(frac)
  \/ \E frac \in Fracs : ClearHistory(frac)
  \/ \E c \in Clients : SocketBreaks(c)
  \/ \E c \in Clients : SocketCloses(c)
  \/ \E c \in Clients : SocketClosed(c)

SpecLog == InitLog /\ [][NextLog]_vars

\* ================================================= cleanup, answer kept
\* The pipelines together with DELETE /api/cleanup/:downloadId, whose answer
\* stays in the request slot until the client has read it.

\* DELETE /api/cleanup/:downloadId as CleanupCall, with res.status(404).json
\* kept as the request's answer.
CleanupAnswered(o, id) ==
  IF CleanupCode(Has(activeDownloads, id)) = 404
  THEN /\ FreeSlot(o)
       /\ ops' = [ops EXCEPT ![o] = Op("answered", id, {}, 404)]
       /\ UNCHANGED <<dl, wsl>>
       /\ UNCHANGED <<now, cleanupAfterDownload, activeDownloads, downloadCounter, history,
                      fsDir, fsZip, pc, jid, child, sresp>>
  ELSE CleanupCall(o, id)

\* The client has the answer.
AnswerTaken(o) ==
  /\ ops[o].kind = "answered"
  /\ ops' = [ops EXCEPT ![o] = Idle]
  /\ UNCHANGED <<dl, wsl>>
  /\ UNCHANGED <<now, cleanupAfterDownload, activeDownloads, downloadCounter, history,
                 fsDir, fsZip, pc, jid, child, sresp>>

NextForget ==
  \/ \E p \in Slots : Pipeline(p)
  \/ \E o \in OpSlots : \E id \in KnownIds : CleanupAnswered(o, id)
  \/ \E o \in OpSlots : CleanupFinish(o)
  \/ \E o \in OpSlots : AnswerTaken(o)

SpecForget == Init /\ [][NextForget]_vars

\* ============================================================= shutdown
\* The pipelines together with gracefulShutdown (SIGTERM, SIGINT) and the log
\* stream's subscribers.

\* The log stream at the start: no record published, each connection either
\* not made, open, or no longer open with its 'close' event still to come.
LoggerWith(conn) ==
  [phase |-> "on", ms |-> 0, logHistory |-> <<>>,
   clients |-> {c \in Clients : conn[c] # "new"},
   conn |-> conn,
   token |-> [c \in Clients |-> IF conn[c] = "new" THEN "none" ELSE "jwt"],
   received |-> [c \in Clients |-> <<>>],
   serial |-> 0, sinceClear |-> <<>>, clears |-> 0,
   joined |-> [c \in Clients |-> 0], held |-> [c \in Clients |-> 0]]

InitShutdown ==
  /\ now = 0
  /\ cleanupAfterDownload \in BOOLEAN
  /\ activeDownloads = <<>>
  /\ downloadCounter = 0
  /\ history = <<>>
  /\ fsDir = <<>>
  /\ fsZip = <<>>
  /\ pc = [p \in Slots |-> "idle"]
  /\ jid = [p \in Slots |-> NoId]
  /\ child = [p \in Slots |-> "none"]
  /\ sresp = [p \in Slots |-> NoAnswer]
  /\ ops = [o \in OpSlots |-> Idle]
  /\ dl = NoDownload
  /\ \E conn \in [Clients -> {"new", "open", "closing"}] : wsl = LoggerWith(conn)

\* WebSocketLogger.shutdown: close(1000) on every open client, clear the set.
LoggerShutdown(w) ==
  [w EXCEPT !.conn = [c \in Clients |->
                        IF c \in w.clients /\ readyStateOpen(w.conn[c])
                        THEN "closed_1000" ELSE w.conn[c]],
            !.clients = {}]

\* gracefulShutdown: one turn of its loop (cleanupFiles of the next entry; the
\* history update carries no status), or its end: wsLogger.shutdown(),
\* server.close(), the exit timer.
ShutdownTurn(o, visited) ==
  LET rest == Unvisited(activeDownloads, visited) IN
  IF Len(rest) > 0
  THEN /\ fsDir' = cleanupFilesDir(fsDir, rest[1].id, TRUE, cleanupAfterDownload)
       /\ fsZip' = Without(fsZip, rest[1].id)
       /\ history' = updateDownloadInHistory(history, rest[1].id, "")
       /\ ops' = [ops EXCEPT ![o] = Op("shutdown", rest[1].id, visited \cup {rest[1].id}, 0)]
       /\ wsl' = wsl
  ELSE /\ wsl' = LoggerShutdown(wsl)
       /\ ops' = [ops EXCEPT ![o] = Op("closed", NoId, {}, 0)]
       /\ UNCHANGED <<fsDir, fsZip, history>>

\* process.on('SIGTERM' / 'SIGINT')
Signal(o) ==
  /\ FreeSlot(o)
  /\ ShutdownTurn(o, {})
  /\ UNCHANGED <<now, cleanupAfterDownload, activeDownloads, downloadCounter, pc, jid,
                 child, sresp, dl>>

ShutdownNext(o) ==
  /\ ops[o].kind = "shutdown"
  /\ ShutdownTurn(o, ops[o].visited)
  /\ UNCHANGED <<now, cleanupAfterDownload, activeDownloads, downloadCounter, pc, jid,
                 child, sresp, dl>>

NextShutdown ==
  \/ \E p \in Slots : Pipeline(p)
  \/ \E o \in OpSlots : Signal(o)
  \/ \E o \in OpSlots : ShutdownNext(o)

SpecShutdown == InitShutdown /\ [][NextShutdown]_vars

\* ============================================ one steam client invocation
\* What the handlers of one steam client process make of its output, of the
\* expected content directory and of its exit: verifySessionActive,
\* downloadWithCachedSession, downloadWithFullLogin, downloadAnonymous.

\* The strings the stdout handlers look for.  "Steam Guard" stands for itself
\* and "Two-factor", "Login Failure" for itself and "Invalid Password",
\* "ERROR!" for itself and "failed (Failure)", "Logged in OK" for the three
\* strings verifySessionActive takes as a login.
Markers == {"Steam Guard", "Login Failure", "No subscription", "Access Denied",
            "ERROR!", "Logged in OK"}

Invocations == {"verify", "cached", "full", "anonymous"}
\* How the invocation ends: the process closes by itself, the timer kills it
\* (its close handler still runs), the spawn fails (nothing was printed).
Fates == {"close", "timeout", "error"}

\* needsReauth of downloadWithCachedSession
needsReauth(output) == output \cap {"Steam Guard", "Login Failure"} # {}
\* needsSteamGuard of verifySessionActive and downloadWithFullLogin
needsSteamGuard(output) == "Steam Guard" \in output
\* loginSuccess of verifySessionActive
loginSuccess(output) == "Logged in OK" \in output
\* hasError of the three downloads
hasError(fn, output) ==
  output \cap (CASE fn = "cached" -> {"ERROR!", "No subscription", "Access Denied"}
                 [] fn = "full" -> {"ERROR!", "No subscription"}
                 [] OTHER -> {"ERROR!", "No subscription"}) # {}

\* verifySessionActive's close handler.
verifyResult(output, code) ==
  IF needsSteamGuard(output) THEN "false"
  ELSE IF loginSuccess(output) \/ code = 0 THEN "true" ELSE "false"

\* The close handler of a download: what the promise is settled with.
closeResult(fn, output, content) ==
  CASE fn = "cached" ->
         IF needsReauth(output) THEN "SESSION_EXPIRED"
         ELSE IF content THEN "success"
         ELSE IF hasError(fn, output) THEN "Download failed: SteamCMD error"
         ELSE "Download failed: No content found"
    [] fn = "full" ->
         IF needsSteamGuard(output) THEN "STEAM_GUARD_REQUIRED"
         ELSE IF content THEN "success" ELSE "Download failed"
    [] OTHER ->
         IF content THEN "success"
         ELSE IF hasError(fn, output) THEN "Anonymous download failed"
         ELSE "No content downloaded"

\* ... and what it does to this.sessionValid.
closeSession(fn, output, content, valid) ==
  CASE fn = "cached" -> IF needsReauth(output) THEN FALSE ELSE valid
    [] fn = "full" -> IF ~needsSteamGuard(output) /\ content THEN TRUE ELSE valid
    [] OTHER -> valid

\* A steam client has been started.  The full login is reached only with
\* sessionValid false; the verification and the anonymous download do not
\* read the directory.
InitInvocation ==
  /\ now = 0
  /\ cleanupAfterDownload = FALSE
  /\ activeDownloads = <<>>
  /\ downloadCounter = 0
  /\ history = <<>>
  /\ fsDir = <<>>
  /\ fsZip = <<>>
  /\ pc = [p \in Slots |-> "idle"]
  /\ jid = [p \in Slots |-> NoId]
  /\ child = [p \in Slots |-> "none"]
  /\ sresp = [p \in Slots |-> NoAnswer]
  /\ ops = [o \in OpSlots |-> Idle]
  /\ wsl = NoLogger
  /\ \E fn \in Invocations : \E valid \in BOOLEAN :
       /\ fn = "full" => ~valid
       /\ dl = [phase |-> "spawned", fn |-> fn, output |-> {}, content |-> FALSE,
                sessionValid |-> valid, result |-> ""]

\* The stdout handler sees a chunk holding one of the strings.
InvocationData(marker) ==
  /\ dl.phase = "spawned"
  /\ marker \notin dl.output
  /\ dl' = [dl EXCEPT !.output = @ \cup {marker}]
  /\ UNCHANGED <<mainVars, wsl>>

\* The steam client writes the expected content directory.
InvocationWrites ==
  /\ dl.phase = "spawned"
  /\ dl.fn # "verify"
  /\ ~dl.content
  /\ dl' = [dl EXCEPT !.content = TRUE]
  /\ UNCHANGED <<mainVars, wsl>>

\* The invocation ends.  The promise is settled by what comes first (the
\* timer, the 'error' event, the close handler); the close handler of a
\* killed process still runs and still writes this.sessionValid.
InvocationEnds(fate, code) ==
  /\ dl.phase = "spawned"
  /\ fate = "timeout" => code # 0
  /\ fate = "error" => (dl.output = {} /\ ~dl.content /\ code # 0)
  /\ dl' = [dl EXCEPT
       !.phase = "ended",
       !.result =
          IF dl.fn = "verify"
          THEN IF fate = "close" THEN verifyResult(dl.output, code) ELSE "false"
          ELSE CASE fate = "close" -> closeResult(dl.fn, dl.output, dl.content)
                 [] fate = "timeout" -> "Download timeout"
                 [] OTHER -> "spawn error",
       !.sessionValid =
          IF dl.fn = "verify" \/ fate = "error" THEN @
          ELSE closeSession(dl.fn, dl.output, dl.content, @)]
  /\ UNCHANGED <<mainVars, wsl>>

NextInvocation ==
  \/ \E marker \in Markers : InvocationData(marker)
  \/ InvocationWrites
  \/ \E fate \in Fates : \E code \in {0, 1} : InvocationEnds(fate, code)

SpecInvocation == InitInvocation /\ [][NextInvocation]_vars

\* ================================================ the archive's source
\* createZipArchive's choice of the directory to archive, as a function of
\* what the workspace holds.

\* The directories looked at, in the order of the code: the canonical
\* steamapps/workshop/content/{appId}/{itemId}, then alternativePaths:
\* steamapps/workshop/content/{itemId}, workshop/content/{appId}/{itemId},
\* content/{itemId}, and the workspace itself.
ArchivePaths == 1..5
DirStates == {"absent", "empty", "files"}

\* A workspace that has any of the other directories is itself not empty.
Layouts ==
  {d \in [ArchivePaths -> DirStates] :
     (\E k \in 1..4 : d[k] # "absent") => d[5] = "files"}

\* The first of alternativePaths that exists and is not empty; 0 when none.
firstAlternative(d) ==
  IF \E k \in 2..5 : d[k] = "files"
  THEN CHOOSE k \in 2..5 : d[k] = "files" /\ \A l \in 2..(k - 1) : d[l] # "files"
  ELSE 0

\* The directory given to archive.directory; 0 when the promise is rejected
\* for want of content.
archiveSource(d) ==
  IF d[1] # "absent"
  THEN IF d[1] = "files" THEN 1 ELSE 0
  ELSE firstAlternative(d)

InitSource ==
  /\ now = 0
  /\ cleanupAfterDownload = FALSE
  /\ activeDownloads = <<>>
  /\ downloadCounter = 0
  /\ history = <<>>
  /\ fsDir = <<>>
  /\ fsZip = <<>>
  /\ pc = [p \in Slots |-> "idle"]
  /\ jid = [p \in Slots |-> NoId]
  /\ child = [p \in Slots |-> "none"]
  /\ sresp = [p \in Slots |-> NoAnswer]
  /\ ops = [o \in OpSlots |-> Idle]
  /\ wsl = NoLogger
  /\ \E d \in Layouts : dl = [phase |-> "build", dirs |-> d, source |-> 0]

\* createZipArchive from archive.pipe(output) to archive.finalize() or reject.
ChooseSource ==
  /\ dl.phase = "build"
  /\ dl' = [dl EXCEPT !.phase = IF archiveSource(dl.dirs) = 0 THEN "rejected" ELSE "finalizing",
                      !.source = archiveSource(dl.dirs)]
  /\ UNCHANGED <<mainVars, wsl>>

NextSource == ChooseSource

SpecSource == InitSource /\ [][NextSource]_vars

\* ================================================ a fetch while others act
\* This specification starts when jobs have completed: their records are
\* completed, their archives are on disk.  One fetch is followed in dl
\* (phase, id, range) from the start of its stream to the end of its finish
\* handler, while the other requests and the sweeper run as in Spec.

\* The record of a job that has completed at clock value 0.
CompletedRecord(id) ==
  [NewRecord(id, 0, "ok") EXCEPT !.status = "completed", !.progress = 100,
                                 !.fileSize = minZipSize]

InitFetch ==
  /\ now = 0
  /\ cleanupAfterDownload \in BOOLEAN
  /\ \E n \in 1..MaxJobs :
       /\ activeDownloads = [i \in 1..n |-> CompletedRecord(<<0, i>>)]
       /\ downloadCounter = n
       /\ history = [id \in {<<0, i>> : i \in 1..n} |-> "completed"]
       /\ fsDir = [id \in {<<0, i>> : i \in 1..n} |-> "content"]
       /\ fsZip = [id \in {<<0, i>> : i \in 1..n} |-> minZipSize]
       /\ pc = [p \in Slots |-> IF p <= n THEN "done" ELSE "idle"]
       /\ jid = [p \in Slots |-> IF p <= n THEN <<0, p>> ELSE NoId]
       /\ sresp = [p \in Slots |-> IF p <= n THEN <<200, 0, 0>> ELSE NoAnswer]
  /\ child = [p \in Slots |-> "none"]
  /\ ops = [o \in OpSlots |-> Idle]
  /\ dl = [phase |-> "idle", id |-> NoId, range |-> NoRange]
  /\ wsl = NoLogger

\* GET /api/download/:downloadId/file up to the start of the stream.
StreamStart(id, range) ==
  /\ dl.phase = "idle"
  /\ FetchCode(activeDownloads, fsZip, id, range) \in {200, 206}
  /\ dl' = [phase |-> "streaming", id |-> id, range |-> range]
  /\ UNCHANGED <<mainVars, wsl>>

\* The response has been written out: the finish handler, as in FetchFinish.
StreamFinish ==
  /\ dl.phase = "streaming"
  /\ IF ~RegistersFinish(dl.range)
     THEN /\ dl' = [dl EXCEPT !.phase = "over"]
          /\ UNCHANGED <<activeDownloads, fsDir, fsZip>>
     ELSE IF ShouldCleanup(FALSE, cleanupAfterDownload) /\ Exists(fsDir, dl.id)
     THEN /\ fsDir' = cleanupFilesDir(fsDir, dl.id, FALSE, cleanupAfterDownload)
          /\ fsZip' = Without(fsZip, dl.id)
          /\ dl' = [dl EXCEPT !.phase = "drop"]
          /\ UNCHANGED activeDownloads
     ELSE /\ activeDownloads' = MapDelete(activeDownloads, dl.id)
          /\ dl' = [dl EXCEPT !.phase = "over"]
          /\ UNCHANGED <<fsDir, fsZip>>
  /\ UNCHANGED <<now, cleanupAfterDownload, downloadCounter, history, pc, jid, child,
                 sresp, ops, wsl>>

\* res.on('finish') after cleanupFiles: activeDownloads.delete.
StreamDrop ==
  /\ dl.phase = "drop"
  /\ activeDownloads' = MapDelete(activeDownloads, dl.id)
  /\ dl' = [dl EXCEPT !.phase = "over"]
  /\ UNCHANGED <<now, cleanupAfterDownload, downloadCounter, history, fsDir, fsZip,
                 pc, jid, child, sresp, ops, wsl>>

\* The client goes away before the response has finished: no finish event.
StreamAbort ==
  /\ dl.phase = "streaming"
  /\ dl' = [dl EXCEPT !.phase = "over"]
  /\ UNCHANGED <<mainVars, wsl>>

NextFetch ==
  \/ \E id \in KnownIds : \E range \in {NoRange} \cup Ranges(minZipSize) :
       StreamStart(id, range)
  \/ StreamFinish
  \/ StreamDrop
  \/ StreamAbort
  \/ \E o \in OpSlots : Handler(o)

SpecFetch == InitFetch /\ [][NextFetch]_vars

\* ==================================================== the admin's sessions
\* verifyAdmin, POST /auth (its session part) and POST /logout of the admin
\* router.  wsl holds the AdminSession table and the request being answered.

\* Number of logins.
MaxSessions == 4

\* A token is a pair: what kind of string it is, and for a session id the
\* unique part that follows "admin_session".  <<"admin_session", 0>> is the
\* literal string admin_session.
SessionIds == {<<"admin_session", k>> : k \in 1..MaxSessions}
AdminTokens ==
  {<<"none", 0>>, <<"empty", 0>>, <<"admin_session", 0>>, <<"jwt", 0>>,
   <<"badjwt", 0>>, <<"garbage", 0>>} \cup SessionIds

\* A row of the table: not there; isActive with expiresAt ahead; isActive
\* with expiresAt passed; isActive false.
RowStates == {"absent", "active", "expired", "inactive"}

\* AdminSession.findOne({sessionId LIKE 'admin_session%', isActive, expiresAt > now})
findActiveLike(sessions) == \E s \in SessionIds : sessions[s] = "active"
\* AdminSession.findOne({sessionId: token, isActive, expiresAt > now})
findActive(sessions, token) == token \in SessionIds /\ sessions[token] = "active"
\* verifyToken(token) of the admin router is not null.
verifyToken(token) == token[1] = "jwt"

\* verifyAdmin: 200 stands for next(), the request is processed.
verifyAdmin(sessions, token) ==
  IF token[1] \in {"none", "empty"} \/ token = <<"admin_session", 0>>
  THEN IF findActiveLike(sessions) THEN 200 ELSE 401
  ELSE IF findActive(sessions, token) THEN 200
  ELSE IF verifyToken(token) THEN 200
  ELSE 401

InitAdmin ==
  /\ now = 0
  /\ cleanupAfterDownload = FALSE
  /\ activeDownloads = <<>>
  /\ downloadCounter = 0
  /\ history = <<>>
  /\ fsDir = <<>>
  /\ fsZip = <<>>
  /\ pc = [p \in Slots |-> "idle"]
  /\ jid = [p \in Slots |-> NoId]
  /\ child = [p \in Slots |-> "none"]
  /\ sresp = [p \in Slots |-> NoAnswer]
  /\ ops = [o \in OpSlots |-> Idle]
  /\ dl = NoDownload
  /\ wsl = [phase |-> "admin", sessions |-> [s \in SessionIds |-> "absent"],
            token |-> <<"none", 0>>, code |-> 0]

\* POST /auth with the right credentials, its transaction: every active
\* session of the user is deactivated, a session with a new id is created.
SessionCreated(s) ==
  /\ wsl.code = 0
  /\ wsl.sessions[s] = "absent"
  /\ \A t \in SessionIds : t[2] < s[2] => wsl.sessions[t] # "absent"
  /\ wsl' = [wsl EXCEPT !.sessions =
                [t \in SessionIds |->
                   IF t = s THEN "active"
                   ELSE IF wsl.sessions[t] \in {"active", "expired"} THEN "inactive"
                   ELSE wsl.sessions[t]]]
  /\ UNCHANGED <<mainVars, dl>>

\* The clock passes a session's expiresAt.
SessionExpires(s) ==
  /\ wsl.code = 0
  /\ wsl.sessions[s] = "active"
  /\ wsl' = [wsl EXCEPT !.sessions[s] = "expired"]
  /\ UNCHANGED <<mainVars, dl>>

\* POST /logout: every active session is deactivated.
Logout ==
  /\ wsl.code = 0
  /\ wsl' = [wsl EXCEPT !.sessions =
                [t \in SessionIds |->
                   IF wsl.sessions[t] \in {"active", "expired"} THEN "inactive"
                   ELSE wsl.sessions[t]]]
  /\ UNCHANGED <<mainVars, dl>>

\* A request to an endpoint behind verifyAdmin.
AdminRequest(token) ==
  /\ wsl.code = 0
  /\ wsl' = [wsl EXCEPT !.token = token, !.code = verifyAdmin(wsl.sessions, token)]
  /\ UNCHANGED <<mainVars, dl>>

\* The answer has gone out.
AdminAnswered ==
  /\ wsl.code # 0
  /\ wsl' = [wsl EXCEPT !.token = <<"none", 0>>, !.code = 0]
  /\ UNCHANGED <<mainVars, dl>>

NextAdmin ==
  \/ \E s \in SessionIds : SessionCreated(s)
  \/ \E s \in SessionIds : SessionExpires(s)
  \/ Logout
  \/ \E token \in AdminTokens : AdminRequest(token)
  \/ AdminAnswered

SpecAdmin == InitAdmin /\ [][NextAdmin]_vars

\* ================================================== the login rate limit
\* POST /auth of the admin router for one client IP: checkRateLimit, the
\* credential checks, recordFailedAttempt, clearLoginAttempts.  dl holds the
\* clock, the LoginAttempt row of the IP, each request's position with the
\* attemptCount it has read, and the number of password checks that failed
\* since the last lockout period began.

\* Number of login requests from the IP.
MaxLogins == 3
\* Number of times the clock passes a lockout period.
MaxLockouts == 1
\* MAX_LOGIN_ATTEMPTS (5 by default), scaled down.
MAX_LOGIN_ATTEMPTS == 2
LOCKOUT_TIME == 900000

Logins == 1..MaxLogins
\* The clock moves in jumps of more than LOCKOUT_TIME.
LoginClock == {k * (LOCKOUT_TIME + 1) : k \in 0..MaxLockouts}
NoRow == [there |-> FALSE, attemptCount |-> 0, lastAttempt |-> 0]
\* What a request carries: a wrong username, a wrong password, the right pair.
Credentials == {"wrongUser", "wrongPassword", "right"}

InitLogin ==
  /\ now = 0
  /\ cleanupAfterDownload = FALSE
  /\ activeDownloads = <<>>
  /\ downloadCounter = 0
  /\ history = <<>>
  /\ fsDir = <<>>
  /\ fsZip = <<>>
  /\ pc = [p \in Slots |-> "idle"]
  /\ jid = [p \in Slots |-> NoId]
  /\ child = [p \in Slots |-> "none"]
  /\ sresp = [p \in Slots |-> NoAnswer]
  /\ ops = [o \in OpSlots |-> Idle]
  /\ wsl = NoLogger
  /\ dl = [phase |-> "login", t |-> 0, row |-> NoRow,
           at |-> [r \in Logins |-> "new"], seen |-> [r \in Logins |-> 0],
           code |-> [r \in Logins |-> 0], failed |-> 0]

\* The clock passes a lockout period.
LockoutPasses(t) ==
  /\ dl.phase = "login"
  /\ t \in LoginClock /\ t > dl.t
  /\ dl' = [dl EXCEPT !.t = t, !.failed = 0]
  /\ UNCHANGED <<mainVars, wsl>>

\* checkRateLimit after its findOne: no row, a row older than the lockout
\* period (an update follows), or the comparison of attemptCount.
CheckRateLimit(r) ==
  /\ dl.phase = "login"
  /\ dl.at[r] = "new"
  /\ r > 1 => dl.at[r - 1] # "new"
  /\ dl' = IF ~dl.row.there THEN [dl EXCEPT !.at[r] = "passed"]
           ELSE IF dl.t - dl.row.lastAttempt > LOCKOUT_TIME
           THEN [dl EXCEPT !.at[r] = "resetting"]
           ELSE IF dl.row.attemptCount < MAX_LOGIN_ATTEMPTS
           THEN [dl EXCEPT !.at[r] = "passed"]
           ELSE [dl EXCEPT !.at[r] = "done", !.code[r] = 429]
  /\ UNCHANGED <<mainVars, wsl>>

\* attempt.update({attemptCount: 0, isLocked: false, lockedUntil: null})
ResetAttempts(r) ==
  /\ dl.phase = "login"
  /\ dl.at[r] = "resetting"
  /\ dl' = [dl EXCEPT !.at[r] = "passed",
                      !.row.attemptCount = IF dl.row.there THEN 0 ELSE @]
  /\ UNCHANGED <<mainVars, wsl>>

\* The username test and bcrypt.compare.
CheckCredentials(r, cred) ==
  /\ dl.phase = "login"
  /\ dl.at[r] = "passed"
  /\ dl' = [dl EXCEPT !.at[r] = IF cred = "right" THEN "clearing" ELSE "recording",
                      !.failed = IF cred = "wrongPassword" THEN @ + 1 ELSE @]
  /\ UNCHANGED <<mainVars, wsl>>

\* recordFailedAttempt, its findOrCreate: a new row counts 1; an existing
\* row is read and the update follows.
RecordFailedAttempt(r) ==
  /\ dl.phase = "login"
  /\ dl.at[r] = "recording"
  /\ dl' = IF ~dl.row.there
           THEN [dl EXCEPT !.row = [there |-> TRUE, attemptCount |-> 1, lastAttempt |-> dl.t],
                           !.at[r] = "done", !.code[r] = 401]
           ELSE [dl EXCEPT !.seen[r] = dl.row.attemptCount, !.at[r] = "updating"]
  /\ UNCHANGED <<mainVars, wsl>>

\* attempt.update({attemptCount: newCount, lastAttempt: new Date(), ...})
\* with newCount computed from the row as it was read.
UpdateAttempt(r) ==
  /\ dl.phase = "login"
  /\ dl.at[r] = "updating"
  /\ dl' = [dl EXCEPT !.row = IF dl.row.there
                               THEN [there |-> TRUE, attemptCount |-> dl.seen[r] + 1,
                                     lastAttempt |-> dl.t]
                               ELSE @,
                      !.seen[r] = 0, !.at[r] = "done", !.code[r] = 401]
  /\ UNCHANGED <<mainVars, wsl>>

\* clearLoginAttempts: LoginAttempt.destroy, then the session is made.
ClearLoginAttempts(r) ==
  /\ dl.phase = "login"
  /\ dl.at[r] = "clearing"
  /\ dl' = [dl EXCEPT !.row = NoRow, !.at[r] = "done", !.code[r] = 200, !.failed = 0]
  /\ UNCHANGED <<mainVars, wsl>>

NextLogin ==
  \/ \E t \in LoginClock : LockoutPasses(t)
  \/ \E r \in Logins : CheckRateLimit(r)
  \/ \E r \in Logins : ResetAttempts(r)
  \/ \E r \in Logins : \E cred \in Credentials : CheckCredentials(r, cred)
  \/ \E r \in Logins : RecordFailedAttempt(r)
  \/ \E r \in Logins : UpdateAttempt(r)
  \/ \E r \in Logins : ClearLoginAttempts(r)

SpecLogin == InitLogin /\ [][NextLogin]_vars

\* ============================================================== properties
Occupying == {"preparing", "downloading", "creating_archive"}
Terminal == {"completed", "error"}
Path == <<"starting", "preparing", "downloading", "creating_archive", "completed">>
Occupancy(m) == Cardinality({i \in 1..Len(m) : m[i].status \in Occupying})

\* C1: the number of jobs whose state is preparing, downloading or
\* creating_archive never exceeds the configured cap.
C1_OccupancyWithinCap == Occupancy(activeDownloads) <= maxConcurrent

\* One step of a record's state: no change, the next state of the path, or
\* error from a state that is not terminal.
StateStep(s, t) ==
  \/ s = t
  \/ \E k \in 1..(Len(Path) - 1) : s = Path[k] /\ t = Path[k + 1]
  \/ s \notin Terminal /\ t = "error"

\* C2: the state of a record that stays in the table moves only along
\* starting -> preparing -> downloading -> creating_archive -> completed, or
\* once to error from a non-terminal state; a terminal state never changes.
C2_StateFollowsPath ==
  [][\A i \in 1..Len(activeDownloads) :
       Has(activeDownloads', activeDownloads[i].id) =>
         StateStep(activeDownloads[i].status,
                   Get(activeDownloads', activeDownloads[i].id).status)]_vars

\* A sweeper pass ends in this step: after its last stale entry, or at once
\* when it finds none (only the clock reading shows).
SweepPassEnds ==
  \/ \E o \in OpSlots : ops[o].kind = "sweep" /\ ops'[o] = Idle
  \/ /\ now' # now
     /\ UNCHANGED <<activeDownloads, downloadCounter, history, fsDir, fsZip, pc, jid,
                    child, sresp, ops>>

\* C3: no workspace is leaked: when a sweeper pass ends, a job whose pipeline
\* has ended, whose record is gone and for which nothing is running any more
\* has no workspace on disk.
C3_NoWorkspaceLeaked ==
  [][SweepPassEnds =>
       \A p \in Slots :
         (pc'[p] = "done" /\ child'[p] = "none" /\ ~Has(activeDownloads', jid'[p]))
           => ~Exists(fsDir', jid'[p])]_vars

\* C4: a submit with a valid URL that finds the table size equal to the cap is
\* answered 429 with the table size and the cap in the body; it changes
\* neither the table, the id counter, the disk nor the history, and the
\* request is over (a refused request never goes on).
C4_FullTableRejects ==
  [][\A p \in Slots :
       /\ (pc[p] = "idle" /\ pc'[p] # "idle" /\ sresp'[p][1] # 400
             /\ Len(activeDownloads) = maxConcurrent)
          => /\ sresp'[p] = <<429, Len(activeDownloads), maxConcurrent>>
             /\ pc'[p] = "refused"
             /\ UNCHANGED <<activeDownloads, downloadCounter, history, fsDir, fsZip, jid>>
       /\ pc[p] = "refused" => (pc'[p] = "refused" /\ sresp'[p] = sresp[p])]_vars

\* A request was refused at a full table.
C4_Witness ==
  \E p \in Slots : pc[p] = "refused" /\ sresp[p] = <<429, maxConcurrent, maxConcurrent>>

\* C5: every completed record has an archive size of at least 512 bytes and
\* its archive file exists on disk.
C5_CompletedHasArchive ==
  \A i \in 1..Len(activeDownloads) :
    activeDownloads[i].status = "completed" =>
      /\ activeDownloads[i].fileSize >= minZipSize
      /\ Exists(fsZip, activeDownloads[i].id)

\* C6: once a cleanup call has returned, a second cleanup call for the same id
\* is answered with success.
C6_CleanupIdempotent ==
  [][\A o \in OpSlots :
       (ops[o].kind = "cleanup" /\ ops'[o] = Idle)
         => CleanupCode(Has(activeDownloads', ops[o].cur)) = 200]_vars

\* C7: when a cleanup call for a job in state downloading or creating_archive
\* returns, no steam client and no archive write of that job is running.
C7_CleanupCancels ==
  [][\A o \in OpSlots : \A p \in Slots :
       (/\ ops[o].kind = "cleanup" /\ ops'[o] = Idle
        /\ jid[p] = ops[o].cur
        /\ Has(activeDownloads, ops[o].cur)
        /\ Get(activeDownloads, ops[o].cur).status \in {"downloading", "creating_archive"})
         => child'[p] = "none"]_vars

\* C8: when the finish handler of a whole-file fetch drops the record, the
\* workspace and the archive in it are gone from the disk.
C8_FetchDisposes ==
  [][\A o \in OpSlots :
       (/\ ops[o].kind \in {"fetch_stream", "fetch_drop"} /\ ops'[o] = Idle
        /\ ops[o].range = NoRange
        /\ Has(activeDownloads, ops[o].cur) /\ ~Has(activeDownloads', ops[o].cur))
         => (~Exists(fsDir', ops[o].cur) /\ ~Exists(fsZip', ops[o].cur))]_vars

\* C9: no step of a fetch that carries a byte range (its start, the end of
\* its delivery, its abort) changes the table, the disk, the history or the
\* id counter.
C9_RangedFetchKeeps ==
  [][\A o \in OpSlots :
       (ops'[o] # ops[o] /\ (ops[o].range # NoRange \/ ops'[o].range # NoRange))
         => UNCHANGED <<activeDownloads, fsDir, fsZip, history, downloadCounter>>]_vars

\* A range whose start is beyond the file is being served for a completed job.
C9_Witness ==
  \E o \in OpSlots :
    /\ ops[o].kind = "fetch_stream"
    /\ ops[o].range = <<minZipSize + 1, minZipSize + 2>>
    /\ Has(activeDownloads, ops[o].cur)
    /\ Exists(fsZip, ops[o].cur)

\* C10: when the sweeper is done with a stale job that was in a non-terminal
\* state, a status query for it returns state error and its workspace is gone.
C10_SweeperMarksTimeout ==
  [][\A o \in OpSlots :
       (/\ ops[o].kind = "sweep" /\ ops'[o] # ops[o]
        /\ Has(activeDownloads, ops[o].cur)
        /\ Get(activeDownloads, ops[o].cur).status \notin Terminal)
         => /\ StatusResponse(activeDownloads', ops[o].cur).status = "error"
            /\ ~Exists(fsDir', ops[o].cur)]_vars

\* C16: a status query made right after the submit call has returned its
\* response yields state starting and progress 0.
C16_StatusAfterSubmit ==
  [][\A p \in Slots :
       (pc[p] = "admitted" /\ pc'[p] # "admitted")
         => /\ StatusResponse(activeDownloads', jid[p]).status = "starting"
            /\ StatusResponse(activeDownloads', jid[p]).progress = 0]_vars

\* C20: a submit answered 400 (URL, item validity, application) changes
\* neither the table, the id counter, the history nor the disk, and the table
\* never holds a record of an item that is not a valid DayZ item.
C20_RejectedSubmitKeeps ==
  [][/\ \A p \in Slots :
          (pc[p] \in {"idle", "fetching"} /\ pc'[p] = "refused" /\ sresp'[p][1] = 400)
            => UNCHANGED <<activeDownloads, downloadCounter, history, fsDir, fsZip, jid>>
     /\ \A i \in 1..Len(activeDownloads') : activeDownloads'[i].workshopInfo = "ok"]_vars

\* A submit was answered 400 while the table held another job.
C20_Witness ==
  \E p \in Slots : pc[p] = "refused" /\ sresp[p][1] = 400 /\ Len(activeDownloads) > 0

\* ---------------------------------------------------------------------
\* C11: the retry loop makes at most retryCount attempts; a further attempt
\* starts only from the wait that follows a failed attempt, retryDelay * k
\* later; and when the last attempt fails no steam client runs for the job
\* any more and the job is in error.
C11_RetriesBounded ==
  [][/\ dl'.attempt <= retryCount
     /\ (dl'.job = dl.job /\ dl.attempt > 0 /\ dl'.attempt # dl.attempt)
          => /\ dl.phase = "waiting" /\ dl'.attempt = dl.attempt + 1
             /\ dl'.now >= dl.now + retryDelay * dl.attempt
     /\ (dl.phase = "steam" /\ dl.attempt = retryCount
           /\ dl'.phase \notin {"steam", "archive_start"})
          => dl'.phase = "error" /\ dl'.running = "none"]_vars

\* A steam client process of the job ends in this step (the session
\* verification aside).
SteamEnds ==
  /\ dl.phase \in {"steam", "fallback"}
  /\ dl.running \notin {"none", "verify"}
  /\ <<dl'.phase, dl'.running>> # <<dl.phase, dl.running>>

\* ---------------------------------------------------------------------
\* C12: when a steam client invocation of a job ends with a second-factor
\* prompt, an access-denied / no-subscription marker or an item-not-found
\* marker, the job is in error at once and no steam client runs for it.
C12_FatalOutcomesFail ==
  [][(SteamEnds /\ dl'.lastOutcome \in {"guard", "denied", "notfound"})
       => dl'.phase = "error" /\ dl'.running = "none"]_vars

\* ---------------------------------------------------------------------
\* C13: once the full login of a job has prompted for a second factor, the
\* job is in error with the second-factor reason as its error, it is not
\* downloading, archiving or completed, and the downloader's session is not
\* valid.
C13_SecondFactorFails ==
  dl.phase # "off" /\ dl.secondFactor
    => /\ dl.phase = "error"
       /\ dl.error = "STEAM_GUARD_REQUIRED"
       /\ ~dl.sessionValid

\* A steam client process is started in this step.
SteamStarts == dl'.running # "none" /\ dl'.running # dl.running

\* ---------------------------------------------------------------------
\* C14: while a session marked valid at time t stays marked, every steam
\* client start before t + sessionCheckInterval, by the same job or a later
\* one, is neither a session verification nor given a password.
C14_ValidSessionReused ==
  [][(/\ SteamStarts
      /\ dl.validAt >= 0 /\ dl'.validAt = dl.validAt
      /\ dl'.now < dl.validAt + sessionCheckInterval)
       => dl'.running # "verify" /\ ~dl'.password]_vars

\* ---------------------------------------------------------------------
\* C15: within a job the progress field never decreases from one step to the
\* next, through the downloads, the switch to the fallback download and the
\* archive builder's progress events.
C15_ProgressMonotone ==
  [][dl'.job = dl.job => dl'.progress >= dl.progress]_vars

\* The tokens that prove an authenticated observer session: a valid signed
\* token or the id of an active, unexpired admin session.
Authenticated(token) == token \in {"jwt", "session"}

\* ---------------------------------------------------------------------
\* C17: every connection that is or was a subscriber, or has been sent a
\* record, presented a token proving an authenticated observer session.
C17_SubscribersAuthenticated ==
  wsl.phase = "on"
    => \A c \in Clients :
         (c \in wsl.clients \/ wsl.conn[c] \in {"open", "broken", "closing", "gone"}
            \/ Len(wsl.received[c]) > 0)
           => Authenticated(wsl.token[c])

\* ---------------------------------------------------------------------
\* C18: the ids of the records sent to a subscriber, in the order sent, are
\* strictly increasing.
C18_IdsIncrease ==
  wsl.phase = "on"
    => \A c \in Clients : \A k \in 1..(Len(wsl.received[c]) - 1) :
         IdLess(wsl.received[c][k].id, wsl.received[c][k + 1].id)

\* ---------------------------------------------------------------------
\* C19: the ring holds at most maxHistorySize records, and they are the most
\* recent records published since the last clear, in publish order (so the
\* records dropped on overflow are the oldest).
C19_RingHoldsNewest ==
  wsl.phase = "on"
    => LET k == Len(wsl.sinceClear)
           m == IF k > maxHistorySize THEN maxHistorySize ELSE k
       IN /\ Len(wsl.logHistory) = m
          /\ \A j \in 1..m : wsl.logHistory[j] = wsl.sinceClear[k - m + j]

\* The ring has overflowed after a clear.
C19_Witness ==
  /\ wsl.phase = "on"
  /\ wsl.clears > 0
  /\ Len(wsl.sinceClear) > maxHistorySize
  /\ Len(wsl.logHistory) = maxHistorySize

\* ---------------------------------------------------------------------
\* C21: a job record carries an archive path if and only if its state is
\* completed and the archive file exists on disk.
C21_ArchivePathIffCompleted ==
  \A i \in 1..Len(activeDownloads) :
    activeDownloads[i].zipPath
      <=> (activeDownloads[i].status = "completed" /\ Exists(fsZip, activeDownloads[i].id))

\* ---------------------------------------------------------------------
\* C22: the id given to an admitted submission was given to no earlier
\* submission of the run, and is the key of no record of the job table.
C22_IdsUnique ==
  [][\A p \in Slots :
       (pc[p] = "fetching" /\ pc'[p] = "admitted")
         => /\ \A q \in Slots \ {p} : jid[q] # jid'[p]
            /\ ~Has(activeDownloads, jid'[p])]_vars

\* ---------------------------------------------------------------------
\* C23: a cleanup request whose id is not in the job table is answered 404,
\* and the step that answers it changes neither the job table, the id
\* counter, the workspaces and archives on disk nor the history.
C23_ForgetUnknown ==
  [][\A o \in OpSlots : \A id \in KnownIds :
       (/\ ops[o] = Idle /\ ops'[o] # Idle /\ ops'[o].cur = id
        /\ ~Has(activeDownloads, id))
         => /\ ops'[o].kind = "answered" /\ ops'[o].at = 404
            /\ UNCHANGED <<activeDownloads, downloadCounter, history, fsDir, fsZip>>]_vars

\* A cleanup of an id that was once in the table has been answered 404 while
\* the history still has the job's row.
C23_Witness ==
  \E o \in OpSlots :
    /\ ops[o].kind = "answered" /\ ops[o].at = 404
    /\ ops[o].cur # NoId
    /\ ops[o].cur \in DOMAIN history

\* ---------------------------------------------------------------------
\* C24: while the shutdown handler is at work (the signal has come, the
\* server is not closed yet) no submission is taken up or admitted; and when
\* the shutdown handler has run through, no job has a child process or an
\* archive write running, no workspace is left on disk and no subscriber's
\* connection is open.
C24_ShutdownGraceful ==
  [][/\ \A p \in Slots :
          (pc[p] \in {"idle", "fetching"} /\ pc'[p] \in {"fetching", "admitted"}
             /\ pc'[p] # pc[p])
            => \A o \in OpSlots : ops[o].kind # "shutdown"
     /\ \A o \in OpSlots :
          (ops[o].kind # "closed" /\ ops'[o].kind = "closed")
            => /\ \A p \in Slots : child'[p] = "none"
               /\ DOMAIN fsDir' = {}
               /\ \A c \in Clients : wsl'.conn[c] # "open"]_vars

\* ---------------------------------------------------------------------
\* C25: a job goes from its download step to creating_archive only when the
\* expected content directory of its workspace exists and holds an entry,
\* after the advanced download and after the fallback download alike.
C25_ArchiveNeedsContent ==
  [][\A p \in Slots :
       (pc[p] \in {"advanced", "fallback"} /\ pc'[p] = "archive_start")
         => ContentWritten(fsDir, jid[p])]_vars

\* ---------------------------------------------------------------------
\* C26: an invocation in whose output an access / availability marker or a
\* transient-failure marker was seen is never settled as a success, whatever
\* the expected directory holds.
C26_MarkersBeatContent ==
  (dl.phase = "ended" /\ dl.fn \in {"cached", "full", "anonymous"}
     /\ dl.output \cap {"No subscription", "Access Denied", "ERROR!"} # {})
    => dl.result # "success"

\* ---------------------------------------------------------------------
\* C27: the session verification answers true only when a login marker was
\* seen and no second-factor prompt was.
C27_VerifyNeedsMarker ==
  (dl.phase = "ended" /\ dl.fn = "verify" /\ dl.result = "true")
    => ("Logged in OK" \in dl.output /\ "Steam Guard" \notin dl.output)

\* ---------------------------------------------------------------------
\* C30: after a cached-session or full-login download whose output showed a
\* re-auth signal (second-factor prompt, invalid password, login failure)
\* sessionValid is false.
C30_ReauthInvalidates ==
  (dl.phase = "ended" /\ dl.fn \in {"cached", "full"}
     /\ dl.output \cap {"Steam Guard", "Login Failure"} # {})
    => ~dl.sessionValid

\* The size of the history burst of a subscriber admitted at a ring of h records.
BurstSize(h) == IF h > recentLogs THEN recentLogs ELSE h

C29_CleanedStays ==
  [][\A id \in DOMAIN history :
       history[id] = "cleaned" => (id \in DOMAIN history' /\ history'[id] = "cleaned")]_vars

\* ---------------------------------------------------------------------
\* C31: the archive's source is the first directory, in the order canonical
\* then alternatives, that exists and is not empty, and the build is
\* rejected for want of content only when there is none.
C31_FirstNonEmptySource ==
  dl.phase \in {"finalizing", "rejected"}
    => IF \E k \in ArchivePaths : dl.dirs[k] = "files"
       THEN /\ dl.phase = "finalizing"
            /\ dl.dirs[dl.source] = "files"
            /\ \A l \in 1..(dl.source - 1) : dl.dirs[l] # "files"
       ELSE dl.phase = "rejected"

\* The progress range of a state.
InRange(status, progress) ==
  /\ status = "downloading" => (10 <= progress /\ progress <= 60)
  /\ status = "creating_archive" => (65 <= progress /\ progress <= 100)

\* Within one undisturbed download the ranges are kept, for every sequence of
\* download markers, outcomes and archive progress events.
DlProgressInRange ==
  dl.phase # "off" => InRange(DlStatus(dl), dl.progress)

\* ---------------------------------------------------------------------
\* C32: a job record in state downloading has progress within 10..60 and a
\* job record in state creating_archive has progress within 65..100.
C32_ProgressInRange ==
  \A i \in 1..Len(activeDownloads) :
    InRange(activeDownloads[i].status, activeDownloads[i].progress)

C34_RemovedStaysRemoved ==
  [][\A p \in Slots :
       (jid[p] # NoId /\ ~Has(activeDownloads, jid[p]))
         => ~Has(activeDownloads', jid[p])]_vars

\* ---------------------------------------------------------------------
\* C36: the admission test counts every record of the job table, whatever
\* its state: a submit with a valid URL is answered 429 exactly when the
\* number of records is at least the cap, and the body carries that number.
C36_OccupancyIsTableSize ==
  [][\A p \in Slots :
       (pc[p] = "idle" /\ pc'[p] # "idle" /\ sresp'[p][1] # 400)
         => /\ (pc'[p] = "refused") = (Len(activeDownloads) >= maxConcurrent)
            /\ pc'[p] = "refused"
                 => sresp'[p] = <<429, Len(activeDownloads), maxConcurrent>>]_vars

\* A submission was answered 429 and the table is full of records that are
\* all completed or in error.
C36_Witness ==
  \E p \in Slots :
    /\ pc[p] = "refused" /\ sresp[p][1] = 429
    /\ Len(activeDownloads) = sresp[p][2]
    /\ \A i \in 1..Len(activeDownloads) :
         activeDownloads[i].status \in {"completed", "error"}
    /\ \A q \in Slots \ {p} : pc[q] \notin {"idle", "fetching", "refused"}

\* ---------------------------------------------------------------------
\* C35: while a fetch is streaming an archive, the archive stays on disk:
\* no step of another whole-file fetch's finish handler, of the sweeper, of
\* a cleanup or of a clear removes it before the stream has ended.
C35_StreamKeepsArchive ==
  [][(dl.phase = "streaming" /\ dl'.phase = "streaming" /\ Exists(fsZip, dl.id))
       => Exists(fsZip', dl.id)]_vars

\* ---------------------------------------------------------------------
\* C37: a job record whose progress is 100 is in state completed.
C37_FullProgressIsCompleted ==
  \A i \in 1..Len(activeDownloads) :
    activeDownloads[i].progress = 100 => activeDownloads[i].status = "completed"

\* ---------------------------------------------------------------------
\* C38: a request behind verifyAdmin is processed only if its token is the
\* id of an active, unexpired session or a valid signed token; with no
\* token, or with the literal token admin_session, it is answered 401.
C38_AdminNeedsToken ==
  [][(wsl.code = 0 /\ wsl'.code # 0)
       => /\ wsl'.code = 200
               => \/ findActive(wsl.sessions, wsl'.token)
                  \/ verifyToken(wsl'.token)
          /\ (wsl'.token[1] \in {"none", "empty"} \/ wsl'.token = <<"admin_session", 0>>)
               => wsl'.code = 401]_vars

\* ---------------------------------------------------------------------
\* C39: for one client IP, no more than MAX_LOGIN_ATTEMPTS password checks
\* fail within one lockout period, whatever the interleaving of the IP's
\* login requests: the requests after them are answered 429.
C39_FailedChecksBounded ==
  dl.phase = "login" => dl.failed <= MAX_LOGIN_ATTEMPTS

====
